---- MODULE Spec2Model ----
(***************************************************************************)
(* A model of gmail-multi-mcp: the chunked batch executor of GmailClient   *)
(* (batchModifyEmails / batchDeleteEmails, src/src/gmail-client.ts), the   *)
(* account registry of AccountManager (account-manager.ts, kept as         *)
(* src/unnamed/part_004), the path guard and the message builders of       *)
(* email-utils (kept in src/src/types.ts), GmailClient.sendEmail, and      *)
(* getOrCreateLabel of label-manager.ts, driven by the tool handlers of    *)
(* the MCP server (index.ts, kept as src/unnamed/part_002).                *)
(***************************************************************************)
EXTENDS Integers, Sequences, FiniteSets, TLC

(***************************************************************************)
(* Bounds of the model.                                                    *)
(***************************************************************************)
\* longest messageIds list given to a batch run
MaxN == 4
\* largest batchSize given to a batch run
MaxBatch == 3

\* message ids; a list may name the same id twice
Ids == {"m1", "m2"}

VARIABLES
  \* ---- one run of batchModifyEmails / batchDeleteEmails ----
  bOp,          \* which method runs: "modify" or "delete"
  messageIds,   \* parameter messageIds
  batchSize,    \* parameter batchSize
  i,            \* the loop variable i (0-based, as in the source)
  batch,        \* const batch = messageIds.slice(i, i + batchSize)
  promises,     \* the promises given to Promise.allSettled: indexes into remote
  successCount, \* let successCount
  failures,     \* const failures
  bpc,          \* where the run stands: "loop", "await", "done"
  returned,     \* the value the method returned, or NoValue
  remote,       \* the remote calls issued so far, in issue order
  settleOrder,  \* the indexes of remote in the order the calls settled
  chunkLog      \* the chunks dispatched so far: the loop's i and its batch

VARIABLES
  \* ---- the files AccountManager keeps under ACCOUNTS_DIR ----
  accountsDir,  \* whether ACCOUNTS_DIR exists
  configFile,   \* the text of CONFIG_PATH (config.json), or NoFile
  dirs,         \* the accounts whose directory ACCOUNTS_DIR/<email> exists
  tokens,       \* per account, the credential held by its token.json, or NoToken
  \* ---- the environment ----
  clock,        \* what new Date() returns next
  consents,     \* how many times the consent flow (authenticate) was invoked
  started,      \* how many calls were started
  damaged,      \* how many times a token.json was damaged from outside
  \* ---- the calls in progress, one per caller ----
  pc,           \* per caller, the await its call stands at, or "idle"
  arg,          \* per caller, the email its call was given
  registry,     \* per caller, the local const registry of its call
  client,       \* per caller, the credential authenticate returned to its call
  outcome,      \* per caller, how its last call ended
  \* ---- history ----
  addedOk,      \* the accounts an addAccount call returned for
  removeCalled, \* the accounts removeAccount was called for
  dirsBefore    \* per caller, the account directories when its call started

VARIABLES
  \* ---- getGmailClient (index.ts) and the credential getAccountAuth loads ----
  hint,         \* per caller, how its call in progress was made (Direct, ...)
  auth,         \* per caller, the credential its getAccountAuth parsed
  gmail         \* per caller, the GmailClient its getGmailClient returned

VARIABLES
  \* ---- the path guard (email-utils) and the download_attachment tool ----
  platform,     \* "posix" or "win32": decides path.sep and path.resolve
  cwd,          \* process.cwd(), as its segments
  pathIn,       \* the path given: an attachment's filePath, or savePath
  fileName,     \* download_attachment: filename || originalFilename
  dirOnDisk,    \* download_attachment: whether resolvedDir exists
  ppc,          \* "start", or which operation was applied
  verdict,      \* how the operation ended
  fsLog         \* the path classifications and file-system writes, in order

pathVars == <<platform, cwd, pathIn, fileName, dirOnDisk, ppc, verdict, fsLog>>

VARIABLES
  \* ---- GmailClient.sendEmail and the message builders (email-utils) ----
  params,       \* the SendEmailParamsExtended of the call
  spc,          \* where the call stands: "start", "nodemailer", "sending", ...
  mailOptions,  \* what createEmailWithNodemailer handed to transporter.sendMail
  rawMessage,   \* the message built, as its characters
  sendLog,      \* path checks, files opened and remote send calls, in order
  sendError     \* what the call threw, or "none"

sendVars == <<params, spc, mailOptions, rawMessage, sendLog, sendError>>

VARIABLES
  \* ---- label-manager: getOrCreateLabel calls on one account ----
  labels,       \* the user labels the remote account holds, in creation order
  lpc,          \* per caller, "idle" or "create": awaiting labels.create
  labelName,    \* per caller, parameter labelName of its call
  labelResult,  \* per caller, what its last call returned or threw
  labelCalls    \* how many getOrCreateLabel calls were started

labelVars == <<labels, lpc, labelName, labelResult, labelCalls>>

ggcVars == <<hint, auth, gmail>>

regVars == <<accountsDir, configFile, dirs, tokens, clock, consents, started,
             damaged, pc, arg, registry, client, outcome, addedOk, removeCalled,
             dirsBefore, ggcVars>>

batchVars == <<bOp, messageIds, batchSize, i, batch, promises, successCount,
               failures, bpc, returned, remote, settleOrder, chunkLog>>

\* what the calls of the account registry leave alone, and the batch run
nonRegVars == <<batchVars, pathVars, sendVars, labelVars>>
nonBatchVars == <<regVars, pathVars, sendVars, labelVars>>
nonPathVars == <<batchVars, regVars, sendVars, labelVars>>
nonSendVars == <<batchVars, regVars, pathVars, labelVars>>
nonLabelVars == <<batchVars, regVars, pathVars, sendVars>>

vars == <<batchVars, regVars, pathVars, sendVars, labelVars>>

NoValue == [none |-> TRUE]

Min(a, b) == IF a < b THEN a ELSE b
Max(a, b) == IF a > b THEN a ELSE b

RECURSIVE SeqsUpTo(_, _)
\* all sequences over S of length at most n
SeqsUpTo(S, n) ==
  IF n = 0 THEN {<<>>}
  ELSE LET shorter == SeqsUpTo(S, n - 1)
       IN  shorter \cup {Append(s, x) : s \in {t \in shorter : Len(t) = n - 1}, x \in S}

(***************************************************************************)
(* batchModifyEmails and batchDeleteEmails.  batch.map issues the calls of *)
(* a chunk without an await in between (one step); each call then settles  *)
(* on its own, in any order; the tally and i += batchSize run once         *)
(* Promise.allSettled has resolved.  addLabelIds / removeLabelIds are      *)
(* passed through to the remote call and do not affect the control flow.   *)
(*                                                                         *)
(* The remote API: a per-message call is independently fallible.  A call   *)
(* rejects with an Error object (its message is reported) or with a value  *)
(* that is no Error (String(value) is reported).                           *)
(***************************************************************************)
Reasons == { [isError |-> TRUE,  message |-> "Not Found", raw |-> 0],
             [isError |-> FALSE, message |-> "",          raw |-> 429] }

NoReason == [isError |-> FALSE, message |-> "", raw |-> 0]

\* String(value) of the values a call rejects with
ToStr(n) == IF n = 429 THEN "429" ELSE IF n = 0 THEN "0" ELSE "NaN"

\* result.reason instanceof Error ? result.reason.message : String(result.reason)
ErrorText(reason) == IF reason.isError THEN reason.message ELSE ToStr(reason.raw)

\* Array.prototype.slice(start, end) on a list s (0-based, end exclusive;
\* a negative index counts from the end, an index past the end is the end)
SliceIndex(k, len) == IF k < 0 THEN Max(len + k, 0) ELSE Min(k, len)

\* a slice that takes the element at `end` too
SliceThroughEnd(s, start, end) ==
  LET from == SliceIndex(start, Len(s))
      to   == SliceIndex(end + 1, Len(s))
  IN  IF from >= to THEN <<>> ELSE SubSeq(s, from + 1, to)

Slice(s, start, end) ==
  LET from == SliceIndex(start, Len(s))
      to   == SliceIndex(end, Len(s))
  IN  IF from >= to THEN <<>> ELSE SubSeq(s, from + 1, to)

\* a wait that ends with the first call that settles (Promise.race)
FirstSettled(ps, calls) ==
  Len(ps) = 0 \/ \E k \in 1..Len(ps) : calls[ps[k]].status # "pending"

\* Promise.allSettled resolves once no promise of the chunk is pending
AllSettled(ps, calls) == \A k \in 1..Len(ps) : calls[ps[k]].status # "pending"

\* a tally loop that leaves at the first result that is not fulfilled
TallyUntilFailure(results, settled) ==
  LET bad == {k \in 1..Len(results) : results[k].status # "fulfilled"}
      last == IF bad = {} THEN Len(results)
              ELSE CHOOSE k \in bad : \A m \in bad : k <= m
  IN  [k \in 1..last |-> k]

\* a tally that reads the results in the order the calls settled
TallyInSettleOrder(results, settled) == settled

\* the order in which the tally loop reads results: j = 0 .. results.length - 1
TallyOrder(results, settled) == [k \in 1..Len(results) |-> k]

\* a tally step that records a failure only when the reason is an Error
ModifyTallyStepErrorsOnly(acc, result, id) ==
  IF result.status = "fulfilled"
  THEN [acc EXCEPT !.successCount = @ + 1]
  ELSE IF result.reason.isError
       THEN [acc EXCEPT !.failures =
               Append(@, [id |-> id, error |-> result.reason.message])]
       ELSE acc

\* one iteration of the tally loop of batchModifyEmails: lines 207-217
ModifyTallyStep(acc, result, id) ==
  IF result.status = "fulfilled"
  THEN [acc EXCEPT !.successCount = @ + 1]
  ELSE [acc EXCEPT !.failures =
          Append(@, [id |-> id, error |-> ErrorText(result.reason)])]

\* a delete tally step that reports one fixed text for every failure
DeleteTallyStepFixedText(acc, result, id) ==
  IF result.status = "fulfilled"
  THEN [acc EXCEPT !.successCount = @ + 1]
  ELSE [acc EXCEPT !.failures =
          Append(@, [id |-> id, error |-> "delete failed"])]

\* one iteration of the tally loop of batchDeleteEmails: lines 244-254
DeleteTallyStep(acc, result, id) ==
  IF result.status = "fulfilled"
  THEN [acc EXCEPT !.successCount = @ + 1]
  ELSE [acc EXCEPT !.failures =
          Append(@, [id |-> id, error |-> ErrorText(result.reason)])]

RECURSIVE ModifyTally(_, _, _, _, _)
\* the tally loop of batchModifyEmails over results, read in `order` from its k-th
ModifyTally(order, k, results, b, acc) ==
  IF k > Len(order) THEN acc
  ELSE ModifyTally(order, k + 1, results, b,
                   ModifyTallyStep(acc, results[order[k]], b[order[k]]))

RECURSIVE DeleteTally(_, _, _, _, _)
\* the tally loop of batchDeleteEmails
DeleteTally(order, k, results, b, acc) ==
  IF k > Len(order) THEN acc
  ELSE DeleteTally(order, k + 1, results, b,
                   DeleteTallyStep(acc, results[order[k]], b[order[k]]))

\* a map that issues the call of the chunk's first target a second time
IssueCallsRepeatingFirst(op, b, start, chunk) ==
  LET calls == [k \in 1..Len(b) |->
                  [id |-> b[k], op |-> op, pos |-> start + k - 1, chunk |-> chunk,
                   status |-> "pending", reason |-> NoReason]]
  IN  IF calls = <<>> THEN calls ELSE Append(calls, calls[1])

\* the calls batch.map(...) issues for one chunk, each a pending promise
IssueCalls(op, b, start, chunk) ==
  [k \in 1..Len(b) |->
     [id |-> b[k], op |-> op, pos |-> start + k - 1, chunk |-> chunk,
      status |-> "pending", reason |-> NoReason]]

\* the indexes in remote that hold the calls of the chunk just issued
NewPromises(calls, b) == [k \in 1..Len(b) |-> Len(calls) + k]

\* the indexes of the chunk's results in the order its calls settled
SettledIn(ps) ==
  LET mine == {ps[k] : k \in 1..Len(ps)}
      ord  == SelectSeq(settleOrder, LAMBDA x : x \in mine)
  IN  [k \in 1..Len(ord) |-> CHOOSE m \in 1..Len(ps) : ps[m] = ord[k]]


(***************************************************************************)
(* AccountManager: the registry document and the per-account directories.  *)
(* Every method is a sequence of awaits; a step of the model is the code   *)
(* from one file-system or consent-flow await to the next, and the steps   *)
(* of calls in progress interleave.  ensureAccountsDirectory only ever     *)
(* creates ACCOUNTS_DIR, so it is one step with the read or write it       *)
(* precedes.                                                               *)
(***************************************************************************)
\* the account ids (emails) of the model
Accounts == {"a@x.com", "b@x.com", "c@x.com"}

\* the in-process callers that may have a call in progress
Callers == {1, 2}

\* CONFIG_PATH does not exist (readFile throws)
NoFile == [missing |-> TRUE]
\* registry.defaultAccount is undefined
Undefined == "undefined"
\* how a call was made: directly, by getGmailClient(account) with its account
\* parameter, or by getGmailClient() with the default account
Direct == "direct"
Explicit == "explicit"
ByDefault == "default"
\* AccountConfig.lastUsed is absent
NoTime == 0
\* ACCOUNTS_DIR/<email>/token.json does not exist
NoToken == 0

\* loadRegistry's fallback: { accounts: {} }
EmptyRegistry == [accounts |-> <<>>, defaultAccount |-> Undefined]

\* JSON.stringify(registry, null, 2): a property whose value is undefined is
\* left out of the text; the keys of accounts keep their insertion order
Stringify(reg) ==
  IF reg.defaultAccount = Undefined
  THEN [accounts |-> reg.accounts]
  ELSE [accounts |-> reg.accounts, defaultAccount |-> reg.defaultAccount]

\* JSON.parse(content): a property the text lacks reads as undefined
Parse(text) ==
  [accounts |-> text.accounts,
   defaultAccount |-> IF "defaultAccount" \in DOMAIN text
                      THEN text.defaultAccount ELSE Undefined]

\* the text of a config.json that JSON.parse rejects; `was` is the document
\* the file held before it was damaged
Unparseable(text) == [corrupt |-> TRUE, was |-> text]

\* fs.readFile or JSON.parse throws for the file
Unreadable(text) == text = NoFile \/ "corrupt" \in DOMAIN text

\* a loadRegistry that reads a damaged file as the document it held before
LoadRegistryRecovering ==
  IF configFile = NoFile THEN EmptyRegistry
  ELSE IF "corrupt" \in DOMAIN configFile THEN Parse(configFile.was)
  ELSE Parse(configFile)

\* loadRegistry, lines 37-45, after ensureAccountsDirectory: the parsed
\* document, or the empty registry when readFile or JSON.parse throws
LoadRegistry == IF Unreadable(configFile) THEN EmptyRegistry ELSE Parse(configFile)

\* Object.keys(registry.accounts): the keys in insertion order
Keys(reg) == [k \in 1..Len(reg.accounts) |-> reg.accounts[k].email]

\* registry.accounts[email] is truthy
HasAccount(reg, email) == \E k \in 1..Len(reg.accounts) : reg.accounts[k].email = email

\* registry.accounts[email]
AccountOf(reg, email) ==
  reg.accounts[CHOOSE k \in 1..Len(reg.accounts) : reg.accounts[k].email = email]

\* registry.accounts[email] = config: an existing key keeps its place and
\* takes the new value, a new key goes last
SetAccount(reg, email, config) ==
  IF HasAccount(reg, email)
  THEN [reg EXCEPT !.accounts =
          [k \in 1..Len(reg.accounts) |->
             IF reg.accounts[k].email = email THEN config ELSE reg.accounts[k]]]
  ELSE [reg EXCEPT !.accounts = Append(reg.accounts, config)]

\* delete registry.accounts[email]
DeleteAccount(reg, email) ==
  [reg EXCEPT !.accounts = SelectSeq(reg.accounts, LAMBDA a : a.email # email)]

\* an addAccount that makes every added account the default
AddAsDefault(reg, email, now) ==
  [SetAccount(reg, email, [email |-> email, addedAt |-> now, lastUsed |-> NoTime])
     EXCEPT !.defaultAccount = email]

\* addAccount, lines 69-78: the new entry, and the default when it is the only one
AddToRegistry(reg, email, now) ==
  LET added == SetAccount(reg, email, [email |-> email, addedAt |-> now, lastUsed |-> NoTime])
  IN  IF Len(Keys(added)) = 1
      THEN [added EXCEPT !.defaultAccount = email]
      ELSE added

\* a removeAccount that leaves the default as it was
RemoveKeepingDefault(reg, email) == DeleteAccount(reg, email)

\* a removeAccount that makes the last remaining key the default
RemovePickingLast(reg, email) ==
  LET removed == DeleteAccount(reg, email)
      remainingAccounts == Keys(removed)
  IN  IF reg.defaultAccount = email
      THEN [removed EXCEPT !.defaultAccount =
              IF Len(remainingAccounts) > 0
              THEN remainingAccounts[Len(remainingAccounts)] ELSE Undefined]
      ELSE removed

\* a removeAccount that leaves the registry without default when the
\* default is removed
RemoveClearingDefault(reg, email) ==
  LET removed == DeleteAccount(reg, email)
  IN  IF reg.defaultAccount = email
      THEN [removed EXCEPT !.defaultAccount = Undefined]
      ELSE removed

\* removeAccount, lines 94-101: the entry goes, and a default that named it
\* becomes the first remaining key, or undefined
RemoveFromRegistry(reg, email) ==
  LET removed == DeleteAccount(reg, email)
      remainingAccounts == Keys(removed)
  IN  IF reg.defaultAccount = email
      THEN [removed EXCEPT !.defaultAccount =
              IF Len(remainingAccounts) > 0 THEN remainingAccounts[1] ELSE Undefined]
      ELSE removed

\* setDefaultAccount, line 123
SetDefaultIn(reg, email) == [reg EXCEPT !.defaultAccount = email]

\* getAccountAuth, line 142
TouchLastUsed(reg, email, now) ==
  [reg EXCEPT !.accounts =
     [k \in 1..Len(reg.accounts) |->
        IF reg.accounts[k].email = email
        THEN [reg.accounts[k] EXCEPT !.lastUsed = now]
        ELSE reg.accounts[k]]]

\* the state before any call: nothing on disk, every caller idle
RegInit ==
  /\ accountsDir = FALSE
  /\ configFile = NoFile
  /\ dirs = {}
  /\ tokens = [e \in Accounts |-> NoToken]
  /\ clock = 1
  /\ consents = 0
  /\ started = 0
  /\ damaged = 0
  /\ pc = [c \in Callers |-> "idle"]
  /\ arg = [c \in Callers |-> "a@x.com"]
  /\ registry = [c \in Callers |-> EmptyRegistry]
  /\ client = [c \in Callers |-> NoToken]
  /\ outcome = [c \in Callers |-> "none"]
  /\ addedOk = {}
  /\ removeCalled = {}
  /\ dirsBefore = [c \in Callers |-> {}]
  /\ hint = [c \in Callers |-> Direct]
  /\ auth = [c \in Callers |-> NoToken]
  /\ gmail = [c \in Callers |-> NoValue]

\* no batch run takes place
BatchIdle ==
  /\ bOp = "modify"
  /\ messageIds = <<>>
  /\ batchSize = 1
  /\ i = 0
  /\ batch = <<>>
  /\ promises = <<>>
  /\ successCount = 0
  /\ failures = <<>>
  /\ bpc = "done"
  /\ returned = NoValue
  /\ remote = <<>>
  /\ settleOrder = <<>>
  /\ chunkLog = <<>>


\* no path is being classified
PathIdle ==
  /\ platform = "posix"
  /\ cwd = <<>>
  /\ pathIn = [abs |-> FALSE, segs |-> <<>>]
  /\ fileName = [abs |-> FALSE, segs |-> <<>>]
  /\ dirOnDisk = FALSE
  /\ ppc = "done"
  /\ verdict = "none"
  /\ fsLog = <<>>

\* an absent optional text of a request
NoText == [given |-> FALSE, text |-> <<>>]

\* an absent optional address list of a request
NoList == [given |-> FALSE, list |-> <<>>]

\* no sendEmail call takes place
SendIdle ==
  /\ params = [to |-> <<>>, cc |-> NoList, bcc |-> NoList, subject |-> <<>>,
               body |-> <<>>, htmlBody |-> NoText, mimeType |-> "",
               inReplyTo |-> NoText, attachments |-> <<>>]
  /\ spc = "done"
  /\ mailOptions = NoValue
  /\ rawMessage = <<>>
  /\ sendLog = <<>>
  /\ sendError = "none"

\* no getOrCreateLabel call takes place, the account has no user label
LabelIdle ==
  /\ labels = <<>>
  /\ lpc = [c \in Callers |-> "idle"]
  /\ labelName = [c \in Callers |-> ""]
  /\ labelResult = [c \in Callers |-> NoValue]
  /\ labelCalls = 0

\* most calls started in a run of one caller
MaxCalls == 5
\* most calls started in a run of concurrent callers
MaxConcCalls == 3

\* most times a token.json is damaged in a run
MaxDamage == 1

\* a call ends: its caller is idle again and holds how it ended
Finish(c, how) ==
  /\ pc' = [pc EXCEPT ![c] = "idle"]
  /\ outcome' = [outcome EXCEPT ![c] = how]
  /\ dirsBefore' = [dirsBefore EXCEPT ![c] = {}]
  /\ hint' = [hint EXCEPT ![c] = Direct]

\* a call moves on to its next await; the step that starts the call records
\* the account directories of that moment and how the call was made
GotoVia(c, label, h) ==
  /\ pc' = [pc EXCEPT ![c] = label]
  /\ dirsBefore' = [dirsBefore EXCEPT ![c] = IF pc[c] = "idle" THEN dirs ELSE @]
  /\ hint' = [hint EXCEPT ![c] = IF pc[c] = "idle" THEN h ELSE @]
  /\ UNCHANGED outcome

Goto(c, label) == GotoVia(c, label, Direct)

\* a caller starts a call with email as its argument.  A call does nothing
\* before its first await, so the start is one step with the first read.
Begin(c, email, budget) ==
  /\ pc[c] = "idle"
  /\ started < budget
  /\ started' = started + 1
  /\ gmail' = [gmail EXCEPT ![c] = NoValue]
  /\ UNCHANGED damaged
  /\ arg' = [arg EXCEPT ![c] = email]

\* saveRegistry: ensureAccountsDirectory, then the document replaces the file
SaveRegistry(reg) ==
  /\ accountsDir' = TRUE
  /\ configFile' = Stringify(reg)

\* the add_account tool, lines 954-956: accountExists(email), and the early
\* return "already exists" when it holds
ToolAddAccount(c, email, budget) ==
  /\ Begin(c, email, budget)
  /\ accountsDir' = TRUE
  /\ IF HasAccount(LoadRegistry, email)
     THEN Finish(c, "already exists")
     ELSE Goto(c, "tool_add")
  /\ UNCHANGED <<nonRegVars, auth>>
  /\ UNCHANGED <<configFile, dirs, tokens, clock, consents, registry, client,
                 addedOk, removeCalled>>

\* addAccount, line 53: const registry = await this.loadRegistry(); called
\* directly, or by the add_account tool after its accountExists test
AddAccountLoad(c, email, budget) ==
  /\ \/ Begin(c, email, budget)
     \/ /\ pc[c] = "tool_add" /\ email = arg[c]
        /\ UNCHANGED <<started, damaged, arg, gmail>>
  /\ accountsDir' = TRUE
  /\ registry' = [registry EXCEPT ![c] = LoadRegistry]
  /\ Goto(c, "add_mkdir")
  /\ UNCHANGED <<nonRegVars, auth>>
  /\ UNCHANGED <<configFile, dirs, tokens, clock, consents, client, addedOk,
                 removeCalled>>

\* addAccount, lines 56-57: fs.mkdir(accountDir, { recursive: true })
AddAccountMkdir(c) ==
  /\ pc[c] = "add_mkdir"
  /\ accountsDir' = TRUE
  /\ dirs' = dirs \cup {arg[c]}
  /\ Goto(c, "add_auth")
  /\ UNCHANGED <<nonRegVars, auth, gmail>>
  /\ UNCHANGED <<configFile, tokens, clock, consents, started, damaged, arg, registry,
                 client, addedOk, removeCalled>>

\* addAccount, lines 60-63: the consent flow returns a client, or throws
AddAccountAuthenticate(c) ==
  /\ pc[c] = "add_auth"
  /\ consents' = consents + 1
  /\ \E granted \in BOOLEAN :
       IF granted
       THEN /\ client' = [client EXCEPT ![c] = consents + 1]
            /\ Goto(c, "add_token")
       ELSE /\ Finish(c, "consent failed")
            /\ UNCHANGED client
  /\ UNCHANGED <<nonRegVars, auth, gmail>>
  /\ UNCHANGED <<accountsDir, configFile, dirs, tokens, clock, started, damaged, arg,
                 registry, addedOk, removeCalled>>

\* addAccount, lines 65-67, saveAccountToken: client.credentials is an object
\* (always truthy), so token.json is written in the account's directory;
\* writeFile throws when the directory is gone.  credentials.json, read again
\* here, was read by authenticate just before.
AddAccountSaveToken(c) ==
  /\ pc[c] = "add_token"
  /\ IF arg[c] \in dirs
     THEN /\ tokens' = [tokens EXCEPT ![arg[c]] = client[c]]
          /\ Goto(c, "add_save")
     ELSE /\ Finish(c, "write failed")
          /\ UNCHANGED tokens
  /\ UNCHANGED <<nonRegVars, auth, gmail>>
  /\ UNCHANGED <<accountsDir, configFile, dirs, clock, consents, started, damaged, arg,
                 registry, client, addedOk, removeCalled>>

\* addAccount, lines 69-80: the entry, the default, saveRegistry
AddAccountSave(c) ==
  /\ pc[c] = "add_save"
  /\ LET reg == AddToRegistry(registry[c], arg[c], clock)
     IN  /\ registry' = [registry EXCEPT ![c] = reg]
         /\ SaveRegistry(reg)
  /\ clock' = clock + 1
  /\ addedOk' = addedOk \cup {arg[c]}
  /\ Finish(c, "ok")
  /\ UNCHANGED <<nonRegVars, auth, gmail>>
  /\ UNCHANGED <<dirs, tokens, consents, started, damaged, arg, client, removeCalled>>

\* a removeAccount that removes the directory before its not-found test
RemoveAccountRmFirst(c, email, budget) ==
  /\ Begin(c, email, budget)
  /\ accountsDir' = TRUE
  /\ registry' = [registry EXCEPT ![c] = LoadRegistry]
  /\ removeCalled' = removeCalled \cup {email}
  /\ dirs' = dirs \ {email}
  /\ tokens' = [tokens EXCEPT ![email] = NoToken]
  /\ IF HasAccount(LoadRegistry, email)
     THEN Goto(c, "rm_rmdir")
     ELSE Finish(c, "not found")
  /\ UNCHANGED <<nonRegVars, auth>>
  /\ UNCHANGED <<configFile, clock, consents, client, addedOk>>

\* removeAccount, lines 84-88: loadRegistry and the not-found test
RemoveAccountLoad(c, email, budget) ==
  /\ Begin(c, email, budget)
  /\ accountsDir' = TRUE
  /\ registry' = [registry EXCEPT ![c] = LoadRegistry]
  /\ removeCalled' = removeCalled \cup {email}
  /\ IF HasAccount(LoadRegistry, email)
     THEN Goto(c, "rm_rmdir")
     ELSE Finish(c, "not found")
  /\ UNCHANGED <<nonRegVars, auth>>
  /\ UNCHANGED <<configFile, dirs, tokens, clock, consents, client, addedOk>>

\* removeAccount, lines 91-92: fs.rm(accountDir, { recursive: true, force: true })
RemoveAccountRmdir(c) ==
  /\ pc[c] = "rm_rmdir"
  /\ dirs' = dirs \ {arg[c]}
  /\ tokens' = [tokens EXCEPT ![arg[c]] = NoToken]
  /\ Goto(c, "rm_save")
  /\ UNCHANGED <<nonRegVars, auth, gmail>>
  /\ UNCHANGED <<accountsDir, configFile, clock, consents, started, damaged, arg, registry,
                 client, addedOk, removeCalled>>

\* removeAccount, lines 95-103: delete, the default, saveRegistry
RemoveAccountSave(c) ==
  /\ pc[c] = "rm_save"
  /\ LET reg == RemoveFromRegistry(registry[c], arg[c])
     IN  /\ registry' = [registry EXCEPT ![c] = reg]
         /\ SaveRegistry(reg)
  /\ Finish(c, "ok")
  /\ UNCHANGED <<nonRegVars, auth, gmail>>
  /\ UNCHANGED <<dirs, tokens, clock, consents, started, damaged, arg, client, addedOk,
                 removeCalled>>

\* setDefaultAccount, lines 117-121
SetDefaultLoad(c, email, budget) ==
  /\ Begin(c, email, budget)
  /\ accountsDir' = TRUE
  /\ registry' = [registry EXCEPT ![c] = LoadRegistry]
  /\ IF HasAccount(LoadRegistry, email)
     THEN Goto(c, "sd_save")
     ELSE Finish(c, "not found")
  /\ UNCHANGED <<nonRegVars, auth>>
  /\ UNCHANGED <<configFile, dirs, tokens, clock, consents, client, addedOk,
                 removeCalled>>

\* setDefaultAccount, lines 123-124
SetDefaultSave(c) ==
  /\ pc[c] = "sd_save"
  /\ LET reg == SetDefaultIn(registry[c], arg[c])
     IN  /\ registry' = [registry EXCEPT ![c] = reg]
         /\ SaveRegistry(reg)
  /\ Finish(c, "ok")
  /\ UNCHANGED <<nonRegVars, auth, gmail>>
  /\ UNCHANGED <<dirs, tokens, clock, consents, started, damaged, arg, client, addedOk,
                 removeCalled>>

\* a token.json that holds no parseable credential
CorruptToken == -1

\* a getDefaultAccount that answers with the first registered account
GetFirstAccount ==
  IF Len(LoadRegistry.accounts) = 0 THEN Undefined
  ELSE LoadRegistry.accounts[1].email

\* getDefaultAccount, lines 111-114: the defaultAccount of the loaded document
GetDefaultAccount == LoadRegistry.defaultAccount

\* getGmailClient without an account, index.ts lines 38-48: the default
\* account is read; when there is none the call throws "No account specified
\* and no default account set" and getAccountAuth is never called
GetGmailClientDefault(c, budget) ==
  /\ Begin(c, GetDefaultAccount, budget)
  /\ accountsDir' = TRUE
  /\ IF GetDefaultAccount = Undefined
     THEN Finish(c, "no default")
     ELSE GotoVia(c, "ggc_auth", ByDefault)
  /\ UNCHANGED nonRegVars
  /\ UNCHANGED <<configFile, dirs, tokens, clock, consents, registry, client,
                 addedOk, removeCalled, auth>>

\* getAccountAuth, lines 128-132: loadRegistry and the not-found test, in a
\* call made as h says
GetAccountAuthFirst(c, email, h) ==
  /\ accountsDir' = TRUE
  /\ registry' = [registry EXCEPT ![c] = LoadRegistry]
  /\ IF HasAccount(LoadRegistry, email)
     THEN GotoVia(c, "ga_read", h)
     ELSE Finish(c, "not found")
  /\ UNCHANGED nonRegVars
  /\ UNCHANGED <<configFile, dirs, tokens, clock, consents, client, addedOk,
                 removeCalled, auth>>

\* getAccountAuth called directly
GetAccountAuthLoad(c, email, budget) ==
  /\ Begin(c, email, budget)
  /\ GetAccountAuthFirst(c, email, Direct)

\* getGmailClient(account), index.ts lines 39 and 50: email is the account
\* parameter and nothing is awaited before getAccountAuth(email)
GetGmailClientAccount(c, account, budget) ==
  /\ Begin(c, account, budget)
  /\ GetAccountAuthFirst(c, account, Explicit)

\* getGmailClient without an account, index.ts lines 47 and 50:
\* getAccountAuth(defaultAccount)
GetGmailClientAuth(c) ==
  /\ pc[c] = "ggc_auth"
  /\ GetAccountAuthFirst(c, arg[c], ByDefault)
  /\ UNCHANGED <<started, damaged, arg, gmail>>

\* a getAccountAuth that saves lastUsed before it reads token.json
GetAccountAuthTouchThenRead(c) ==
  /\ pc[c] = "ga_read"
  /\ SaveRegistry(TouchLastUsed(registry[c], arg[c], clock))
  /\ IF tokens[arg[c]] \in {NoToken, CorruptToken}
     THEN /\ Finish(c, "re-authenticate")
          /\ UNCHANGED auth
     ELSE /\ Goto(c, "ga_save")
          /\ auth' = [auth EXCEPT ![c] = tokens[arg[c]]]
  /\ UNCHANGED nonRegVars
  /\ UNCHANGED <<dirs, tokens, clock, consents, started, damaged, arg, registry,
                 client, addedOk, removeCalled, gmail>>

\* getAccountAuth, lines 134-139, 146-148: token.json is read and parsed; a
\* missing file and a file that does not parse both end the call with the
\* re-authenticate error
GetAccountAuthRead(c) ==
  /\ pc[c] = "ga_read"
  /\ IF tokens[arg[c]] \in {NoToken, CorruptToken}
     THEN /\ Finish(c, "re-authenticate")
          /\ UNCHANGED auth
     ELSE /\ Goto(c, "ga_save")
          /\ auth' = [auth EXCEPT ![c] = tokens[arg[c]]]
  /\ UNCHANGED nonRegVars
  /\ UNCHANGED <<accountsDir, configFile, dirs, tokens, clock, consents, started,
                 damaged, arg, registry, client, addedOk, removeCalled, gmail>>

\* getAccountAuth, lines 142-145: lastUsed, saveRegistry, return auth; in
\* getGmailClient, index.ts line 52: new GmailClient(auth, email)
GetAccountAuthSave(c) ==
  /\ pc[c] = "ga_save"
  /\ LET reg == TouchLastUsed(registry[c], arg[c], clock)
     IN  /\ registry' = [registry EXCEPT ![c] = reg]
         /\ SaveRegistry(reg)
  /\ clock' = clock + 1
  /\ auth' = [auth EXCEPT ![c] = NoToken]
  /\ gmail' = [gmail EXCEPT ![c] =
                IF hint[c] = Direct THEN NoValue
                ELSE [accountEmail |-> arg[c], auth |-> auth[c]]]
  /\ Finish(c, "ok")
  /\ UNCHANGED nonRegVars
  /\ UNCHANGED <<dirs, tokens, consents, started, damaged, arg, client,
                 addedOk, removeCalled>>

\* between calls, the token.json of an account is deleted or overwritten
\* with text that is no credential: the states the catch of getAccountAuth,
\* lines 146-148, is written for
DamageToken(cs, email) ==
  /\ \A c \in cs : pc[c] = "idle"
  /\ damaged < MaxDamage
  /\ damaged' = damaged + 1
  /\ tokens[email] \notin {NoToken, CorruptToken}
  /\ \E t \in {NoToken, CorruptToken} : tokens' = [tokens EXCEPT ![email] = t]
  /\ UNCHANGED nonRegVars
  /\ UNCHANGED <<accountsDir, configFile, dirs, clock, consents, started, pc,
                 arg, registry, client, outcome, addedOk, removeCalled,
                 dirsBefore, ggcVars>>

\* between calls, config.json is deleted or overwritten with text that is
\* no JSON: the states the catch of loadRegistry, lines 42-44, is written for
DamageRegistry(cs) ==
  /\ \A c \in cs : pc[c] = "idle"
  /\ damaged < MaxDamage
  /\ damaged' = damaged + 1
  /\ ~Unreadable(configFile)
  /\ configFile' \in {NoFile, Unparseable(configFile)}
  /\ UNCHANGED nonRegVars
  /\ UNCHANGED <<accountsDir, dirs, tokens, clock, consents, started, pc, arg,
                 registry, client, outcome, addedOk, removeCalled, dirsBefore,
                 ggcVars>>

\* one step of one of the callers cs, each starting at most budget calls in all
RegNext(cs, budget) ==
  \E c \in cs :
    \/ \E email \in Accounts : ToolAddAccount(c, email, budget)
    \/ \E email \in Accounts : AddAccountLoad(c, email, budget)
    \/ AddAccountMkdir(c)
    \/ AddAccountAuthenticate(c)
    \/ AddAccountSaveToken(c)
    \/ AddAccountSave(c)
    \/ \E email \in Accounts : RemoveAccountLoad(c, email, budget)
    \/ RemoveAccountRmdir(c)
    \/ RemoveAccountSave(c)
    \/ \E email \in Accounts : SetDefaultLoad(c, email, budget)
    \/ SetDefaultSave(c)
    \/ \E email \in Accounts : GetAccountAuthLoad(c, email, budget)
    \/ GetAccountAuthRead(c)
    \/ GetAccountAuthSave(c)

\* calls one after another: a single caller
SeqNext == RegNext({1}, MaxCalls)

\* calls of two in-process callers, interleaved at their awaits
ConcNext == RegNext(Callers, MaxConcCalls)

\* the registry before any call, and no batch run
RegistryInit == RegInit /\ BatchIdle /\ PathIdle /\ SendIdle /\ LabelIdle

SpecRegSeq == RegistryInit /\ [][SeqNext]_vars

SpecReg == RegistryInit /\ [][ConcNext]_vars

\* most calls started in a run of the tool handlers' getGmailClient
MaxClientCalls == 4

\* the calls of one caller, getGmailClient among them, and token files
\* damaged between the calls
ClientNext ==
  \/ RegNext({1}, MaxClientCalls)
  \/ GetGmailClientDefault(1, MaxClientCalls)
  \/ \E account \in Accounts : GetGmailClientAccount(1, account, MaxClientCalls)
  \/ GetGmailClientAuth(1)
  \/ \E email \in Accounts : DamageToken({1}, email)

SpecClient == RegistryInit /\ [][ClientNext]_vars

\* most calls started in a run in which config.json is damaged
MaxDamageCalls == 4

\* the calls of one caller, and config.json damaged between the calls
DamageNext ==
  \/ RegNext({1}, MaxDamageCalls)
  \/ DamageRegistry({1})

SpecDamage == RegistryInit /\ [][DamageNext]_vars

BatchInit ==
  /\ RegInit
  /\ PathIdle
  /\ SendIdle
  /\ LabelIdle
  /\ bOp \in {"modify", "delete"}
  /\ messageIds \in SeqsUpTo(Ids, MaxN)
  /\ batchSize \in 1..MaxBatch
  /\ i = 0
  /\ batch = <<>>
  /\ promises = <<>>
  /\ successCount = 0
  /\ failures = <<>>
  /\ bpc = "loop"
  /\ returned = NoValue
  /\ remote = <<>>
  /\ settleOrder = <<>>
  /\ chunkLog = <<>>

\* batchModifyEmails, lines 194-204: the loop test, the slice and the map
ModifyDispatch ==
  /\ bOp = "modify" /\ bpc = "loop"
  /\ i < Len(messageIds)
  /\ LET b == Slice(messageIds, i, i + batchSize)
     IN  /\ batch' = b
         /\ chunkLog' = Append(chunkLog, [start |-> i, ids |-> b])
         /\ remote' = remote \o IssueCalls("modify", b, i, Len(chunkLog) + 1)
         /\ promises' = NewPromises(remote, b)
  /\ bpc' = "await"
  /\ UNCHANGED nonBatchVars
  /\ UNCHANGED <<bOp, messageIds, batchSize, i, successCount, failures,
                 returned, settleOrder>>

\* a tally of batchModifyEmails that leaves i as it is
ModifyTallyChunkNoAdvance ==
  /\ bOp = "modify" /\ bpc = "await"
  /\ AllSettled(promises, remote)
  /\ LET results == [k \in 1..Len(promises) |-> remote[promises[k]]]
         acc == ModifyTally(TallyOrder(results, SettledIn(promises)), 1, results, batch,
                            [successCount |-> successCount, failures |-> failures])
     IN  /\ successCount' = acc.successCount
         /\ failures' = acc.failures
  /\ bpc' = "loop"
  /\ UNCHANGED nonBatchVars
  /\ UNCHANGED <<bOp, messageIds, batchSize, i, batch, promises, returned, remote,
                 settleOrder, chunkLog>>

\* batchModifyEmails, lines 196, 206-219: allSettled resolves, the tally, i += batchSize
ModifyTallyChunk ==
  /\ bOp = "modify" /\ bpc = "await"
  /\ AllSettled(promises, remote)
  /\ LET results == [k \in 1..Len(promises) |-> remote[promises[k]]]
         acc == ModifyTally(TallyOrder(results, SettledIn(promises)), 1, results, batch,
                            [successCount |-> successCount, failures |-> failures])
     IN  /\ successCount' = acc.successCount
         /\ failures' = acc.failures
  /\ i' = i + batchSize
  /\ bpc' = "loop"
  /\ UNCHANGED nonBatchVars
  /\ UNCHANGED <<bOp, messageIds, batchSize, batch, promises, returned, remote,
                 settleOrder, chunkLog>>

\* batchModifyEmails, lines 221-225
ModifyReturn ==
  /\ bOp = "modify" /\ bpc = "loop"
  /\ ~(i < Len(messageIds))
  /\ returned' = [successCount |-> successCount,
                  failureCount |-> Len(failures),
                  failures |-> failures]
  /\ bpc' = "done"
  /\ UNCHANGED nonBatchVars
  /\ UNCHANGED <<bOp, messageIds, batchSize, i, batch, promises, successCount,
                 failures, remote, settleOrder, chunkLog>>

\* batchDeleteEmails, lines 235-241
DeleteDispatch ==
  /\ bOp = "delete" /\ bpc = "loop"
  /\ i < Len(messageIds)
  /\ LET b == Slice(messageIds, i, i + batchSize)
     IN  /\ batch' = b
         /\ chunkLog' = Append(chunkLog, [start |-> i, ids |-> b])
         /\ remote' = remote \o IssueCalls("delete", b, i, Len(chunkLog) + 1)
         /\ promises' = NewPromises(remote, b)
  /\ bpc' = "await"
  /\ UNCHANGED nonBatchVars
  /\ UNCHANGED <<bOp, messageIds, batchSize, i, successCount, failures,
                 returned, settleOrder>>

\* batchDeleteEmails, lines 237, 243-256
DeleteTallyChunk ==
  /\ bOp = "delete" /\ bpc = "await"
  /\ AllSettled(promises, remote)
  /\ LET results == [k \in 1..Len(promises) |-> remote[promises[k]]]
         acc == DeleteTally(TallyOrder(results, SettledIn(promises)), 1, results, batch,
                            [successCount |-> successCount, failures |-> failures])
     IN  /\ successCount' = acc.successCount
         /\ failures' = acc.failures
  /\ i' = i + batchSize
  /\ bpc' = "loop"
  /\ UNCHANGED nonBatchVars
  /\ UNCHANGED <<bOp, messageIds, batchSize, batch, promises, returned, remote,
                 settleOrder, chunkLog>>

\* batchDeleteEmails, lines 258-262
DeleteReturn ==
  /\ bOp = "delete" /\ bpc = "loop"
  /\ ~(i < Len(messageIds))
  /\ returned' = [successCount |-> successCount,
                  failureCount |-> Len(failures),
                  failures |-> failures]
  /\ bpc' = "done"
  /\ UNCHANGED nonBatchVars
  /\ UNCHANGED <<bOp, messageIds, batchSize, i, batch, promises, successCount,
                 failures, remote, settleOrder, chunkLog>>

\* the remote API fulfils one pending call (messages.modify / messages.delete)
RemoteFulfil ==
  /\ \E k \in 1..Len(remote) :
       /\ remote[k].status = "pending"
       /\ remote' = [remote EXCEPT ![k].status = "fulfilled"]
       /\ settleOrder' = Append(settleOrder, k)
  /\ UNCHANGED nonBatchVars
  /\ UNCHANGED <<bOp, messageIds, batchSize, i, batch, promises, successCount,
                 failures, bpc, returned, chunkLog>>

\* the remote API rejects one pending call
RemoteReject ==
  /\ \E k \in 1..Len(remote), r \in Reasons :
       /\ remote[k].status = "pending"
       /\ remote' = [remote EXCEPT ![k].status = "rejected", ![k].reason = r]
       /\ settleOrder' = Append(settleOrder, k)
  /\ UNCHANGED nonBatchVars
  /\ UNCHANGED <<bOp, messageIds, batchSize, i, batch, promises, successCount,
                 failures, bpc, returned, chunkLog>>

BatchNext ==
  \/ ModifyDispatch
  \/ ModifyTallyChunk
  \/ ModifyReturn
  \/ DeleteDispatch
  \/ DeleteTallyChunk
  \/ DeleteReturn
  \/ RemoteFulfil
  \/ RemoteReject

SpecBatch == BatchInit /\ [][BatchNext]_vars

\* a run over a list of up to MaxN targets; the loop never reads an id, so
\* one id stands for all
FairBatchInit ==
  /\ RegInit
  /\ PathIdle
  /\ SendIdle
  /\ LabelIdle
  /\ bOp \in {"modify", "delete"}
  /\ messageIds \in SeqsUpTo({"m1"}, MaxN)
  /\ batchSize \in 1..MaxBatch
  /\ i = 0
  /\ batch = <<>>
  /\ promises = <<>>
  /\ successCount = 0
  /\ failures = <<>>
  /\ bpc = "loop"
  /\ returned = NoValue
  /\ remote = <<>>
  /\ settleOrder = <<>>
  /\ chunkLog = <<>>

\* a run in which every remote call settles in the end, and in which the
\* event loop resumes the method once the promise it awaits has resolved
SpecBatchFair ==
  /\ FairBatchInit
  /\ [][BatchNext]_vars
  /\ WF_vars(RemoteFulfil \/ RemoteReject)
  /\ WF_vars(ModifyDispatch \/ ModifyTallyChunk \/ ModifyReturn)
  /\ WF_vars(DeleteDispatch \/ DeleteTallyChunk \/ DeleteReturn)

\* the batchSize values below 1 that z.number() lets through: zero and a
\* negative number
BelowOne == {-1, 0}

\* most chunks of a run that is followed: with a batchSize below 1 the loop
\* of lines 194 and 235 does not end
MaxChunks == MaxN + 1

\* a run of batch_modify_emails / batch_delete_emails, index.ts lines 332-346
\* and 370-382: batchSize is z.number().optional().default(50), any number,
\* and is handed to batchModifyEmails / batchDeleteEmails as given
ToolBatchInit ==
  /\ RegInit
  /\ PathIdle
  /\ SendIdle
  /\ LabelIdle
  /\ bOp \in {"modify", "delete"}
  /\ messageIds \in SeqsUpTo(Ids, MaxN)
  /\ batchSize \in BelowOne \cup 1..MaxBatch
  /\ i = 0
  /\ batch = <<>>
  /\ promises = <<>>
  /\ successCount = 0
  /\ failures = <<>>
  /\ bpc = "loop"
  /\ returned = NoValue
  /\ remote = <<>>
  /\ settleOrder = <<>>
  /\ chunkLog = <<>>

\* the dispatch of batchModifyEmails, followed for MaxChunks chunks
ModifyDispatchSome ==
  /\ Len(chunkLog) < MaxChunks
  /\ ModifyDispatch

\* the dispatch of batchDeleteEmails, followed for MaxChunks chunks
DeleteDispatchSome ==
  /\ Len(chunkLog) < MaxChunks
  /\ DeleteDispatch

ToolBatchNext ==
  \/ ModifyDispatchSome
  \/ ModifyTallyChunk
  \/ ModifyReturn
  \/ DeleteDispatchSome
  \/ DeleteTallyChunk
  \/ DeleteReturn
  \/ RemoteFulfil
  \/ RemoteReject

SpecToolBatch == ToolBatchInit /\ [][ToolBatchNext]_vars

(***************************************************************************)
(* The path guard of email-utils (isSensitivePath, validateAttachmentPath, *)
(* validateDownloadPath) and the download_attachment tool of index.ts.     *)
(* A path is the sequence of its segments; a path as given also says       *)
(* whether it is absolute.  node's path.resolve prints a resolved path     *)
(* with path.sep between the segments: "/" on posix, "\" on win32.         *)
(***************************************************************************)
\* most segments of a path given
MaxPathLen == 3

\* the segments a path given is made of
Segs == {"..", "app", "accounts", "config.json", ".ssh", ".SSH", "etc",
         "token.json"}

\* the platforms node runs the server on
Platforms == {"posix", "win32"}

\* the working directories: the file-system root and /app
Cwds == {<<>>, <<"app">>}

\* the file names given to download_attachment: "", "..", "app",
\* "token.json", "../config.json"
FileNames ==
  {[abs |-> FALSE, segs |-> n] :
     n \in {<<>>, <<"..">>, <<"app">>, <<"token.json">>, <<"..", "config.json">>}}

\* the i flag of the patterns: the segment in lower case
Lower(seg) ==
  CASE seg = ".SSH" -> ".ssh"
    [] OTHER -> seg

\* a resolve that joins the segments and leaves "." and ".." where they are
ResolveKeepingDots(base, p) == IF p.abs THEN p.segs ELSE base \o p.segs

\* path normalisation, one segment at a time: "." is dropped, ".." drops the
\* segment before it (at the root: nothing), any other segment is kept
NormStep(acc, seg) ==
  IF seg = "." THEN acc
  ELSE IF seg = ".."
       THEN IF acc = <<>> THEN <<>> ELSE SubSeq(acc, 1, Len(acc) - 1)
       ELSE Append(acc, seg)

RECURSIVE Normalize(_, _)
Normalize(acc, segs) ==
  IF segs = <<>> THEN acc
  ELSE Normalize(NormStep(acc, Head(segs)), Tail(segs))

\* path.resolve(base, p) for an absolute, normalised base: an absolute p
\* replaces the base, a relative p is appended; the result is normalised
Resolve(base, p) ==
  IF p.abs THEN Normalize(<<>>, p.segs) ELSE Normalize(base, p.segs)

\* path.join(a, b): the segments of both, normalised
PathJoin(a, b) == Normalize(<<>>, a \o b)

\* path.basename(p): the last segment, "" when there is none
BaseName(p) == IF p.segs = <<>> THEN "" ELSE p.segs[Len(p.segs)]

\* AccountManager.ACCOUNTS_DIR, account-manager line 19:
\* path.join(process.cwd(), 'accounts')
ACCOUNTS_DIR == PathJoin(cwd, <<"accounts">>)

\* /[/\\]name[/\\]/i : a segment name with a separator on both sides
DirPattern(p, name) == \E k \in 1..(Len(p) - 1) : Lower(p[k]) = name

\* /[/\\]first[/\\]second[/\\]/i
DirPairPattern(p, first, second) ==
  \E k \in 1..(Len(p) - 2) : Lower(p[k]) = first /\ Lower(p[k + 1]) = second

\* /[/\\]name$/i : the last segment is name
FilePattern(p, name) == Len(p) > 0 /\ Lower(p[Len(p)]) = name

\* the segments that read ".env." and at least one more character
EnvDotNames == {".env.local", ".env.production"}

\* /[/\\]\.env(\..+)?$/i : the last segment is .env, or some segment starts
\* with ".env." (the .+ runs over separators to the end)
EnvPattern(p) ==
  \/ FilePattern(p, ".env")
  \/ \E k \in 1..Len(p) : Lower(p[k]) \in EnvDotNames

\* /^\/etc[/\\]/i : the resolved text starts with "/etc" and a separator; a
\* win32 resolved path starts with its drive
EtcPattern(p) == platform = "posix" /\ Len(p) > 1 /\ Lower(p[1]) = "etc"

\* SENSITIVE_PATH_PATTERNS, lines 216-230
MatchesSensitivePattern(p) ==
  \/ DirPattern(p, ".ssh")
  \/ DirPattern(p, ".gnupg")
  \/ DirPattern(p, ".aws")
  \/ DirPairPattern(p, ".config", "gcloud")
  \/ DirPattern(p, ".docker")
  \/ DirPattern(p, ".kube")
  \/ FilePattern(p, ".npmrc")
  \/ FilePattern(p, ".netrc")
  \/ EnvPattern(p)
  \/ FilePattern(p, "credentials.json")
  \/ FilePattern(p, "token.json")
  \/ DirPattern(p, ".git")
  \/ EtcPattern(p)

\* p is d followed by at least one more segment
Beneath(p, d) == Len(p) > Len(d) /\ SubSeq(p, 1, Len(d)) = d

\* resolvedPath.startsWith(accountsDir + "/"), line 245: the text of the
\* directory, then the character "/".  A posix resolved path has "/" after
\* each directory; a win32 resolved path has "\" there and holds no "/"
StartsWithSlashed(p, d) == platform = "posix" /\ Beneath(p, d)

\* isSensitivePath(resolvedPath), lines 236-252; accountsRoot is its const
\* accountsDir = resolve("accounts")
IsSensitivePath(p) ==
  \/ MatchesSensitivePattern(p)
  \/ LET accountsRoot == Resolve(cwd, [abs |-> FALSE, segs |-> <<"accounts">>])
     IN  StartsWithSlashed(p, accountsRoot) \/ p = accountsRoot

\* validateAttachmentPath and validateDownloadPath, lines 258-279: resolve,
\* then isSensitivePath; "blocked" stands for the throw
Classify(p) ==
  IF IsSensitivePath(Resolve(cwd, p)) THEN "blocked" ELSE "allowed"

\* a resolved path, given as a path
AsGiven(segs) == [abs |-> TRUE, segs |-> segs]

\* validateAttachmentPath(filePath) applied to the path given
ValidateAttachmentPath ==
  /\ ppc = "start"
  /\ ppc' = "attachment"
  /\ verdict' = Classify(pathIn)
  /\ fsLog' = <<[op |-> "classify", path |-> Resolve(cwd, pathIn)]>>
  /\ UNCHANGED <<platform, cwd, pathIn, fileName, dirOnDisk>>
  /\ UNCHANGED nonPathVars

\* a download_attachment that creates the directory before it validates the
\* destination
DownloadAttachmentMkdirFirst ==
  /\ ppc = "start"
  /\ ppc' = "download"
  /\ LET safeFilename == BaseName(fileName)
         resolvedDir  == Resolve(cwd, pathIn)
         fullPath     == Resolve(resolvedDir, [abs |-> FALSE, segs |-> <<safeFilename>>])
         classified   == <<[op |-> "classify", path |-> fullPath]>>
         mkdir        == IF dirOnDisk THEN <<>>
                         ELSE <<[op |-> "mkdir", path |-> resolvedDir]>>
         write        == <<[op |-> "write", path |-> fullPath]>>
     IN  IF safeFilename \in {"", ".", ".."}
         THEN verdict' = "invalid filename" /\ fsLog' = <<>>
         ELSE IF Classify(AsGiven(fullPath)) = "blocked"
         THEN verdict' = "blocked" /\ fsLog' = mkdir \o classified
         ELSE verdict' = "saved" /\ fsLog' = mkdir \o classified \o write
  /\ UNCHANGED <<platform, cwd, pathIn, fileName, dirOnDisk>>
  /\ UNCHANGED nonPathVars

\* download_attachment, index.ts lines 424-442, after its two awaits: the
\* safe file name, the resolved directory, the traversal test,
\* validateDownloadPath, mkdirSync when the directory is missing,
\* writeFileSync; all synchronous
DownloadAttachmentSave ==
  /\ ppc = "start"
  /\ ppc' = "download"
  /\ LET safeFilename == BaseName(fileName)
         resolvedDir  == Resolve(cwd, pathIn)
         fullPath     == Resolve(resolvedDir, [abs |-> FALSE, segs |-> <<safeFilename>>])
         classified   == <<[op |-> "classify", path |-> fullPath]>>
         mkdir        == IF dirOnDisk THEN <<>>
                         ELSE <<[op |-> "mkdir", path |-> resolvedDir]>>
         write        == <<[op |-> "write", path |-> fullPath]>>
     IN  IF safeFilename \in {"", ".", ".."}
         THEN verdict' = "invalid filename" /\ fsLog' = <<>>
         ELSE IF ~Beneath(fullPath, resolvedDir)
                 /\ fullPath # PathJoin(resolvedDir, <<safeFilename>>)
         THEN verdict' = "path traversal" /\ fsLog' = <<>>
         ELSE IF Classify(AsGiven(fullPath)) = "blocked"
         THEN verdict' = "blocked" /\ fsLog' = classified
         ELSE verdict' = "saved" /\ fsLog' = classified \o mkdir \o write
  /\ UNCHANGED <<platform, cwd, pathIn, fileName, dirOnDisk>>
  /\ UNCHANGED nonPathVars

\* a path of up to MaxPathLen segments, relative or absolute, a working
\* directory and a platform, before the guard is applied
PathInit ==
  /\ RegInit
  /\ BatchIdle
  /\ SendIdle
  /\ LabelIdle
  /\ platform \in Platforms
  /\ cwd \in Cwds
  /\ pathIn \in [abs : BOOLEAN, segs : SeqsUpTo(Segs, MaxPathLen)]
  /\ fileName \in FileNames
  /\ dirOnDisk \in BOOLEAN
  /\ ppc = "start"
  /\ verdict = "none"
  /\ fsLog = <<>>

PathNext ==
  \/ ValidateAttachmentPath
  \/ DownloadAttachmentSave

SpecPath == PathInit /\ [][PathNext]_vars

(***************************************************************************)
(* The message builders of email-utils (createEmailMessage,                *)
(* createEmailWithNodemailer) and GmailClient.sendEmail.  A text is the    *)
(* sequence of its characters; the fixed pieces of a header line ("From",  *)
(* "Subject", ...) are written as one character each.                      *)
(***************************************************************************)
\* most characters of the header value a request is given
MaxLen == 2

\* most attachment paths of a request
MaxAttach == 2

\* the characters of a given header value: a letter, a colon, carriage
\* return, line feed, and a letter outside ASCII
Chars == {"a", ":", "CR", "LF", "e-acute"}

\* a well-formed address, u@h.c
Address == <<"u", "@", "h", ".", "c">>

\* the attachment paths given: report.pdf, gone.pdf (no such file),
\* ../app/accounts/config.json and .ssh/id_rsa
AttachPaths ==
  {[abs |-> FALSE, segs |-> n] :
     n \in {<<"report.pdf">>, <<"gone.pdf">>,
            <<"..", "app", "accounts", "config.json">>, <<".ssh", "id_rsa">>}}

\* existsSync(filePath): every file but gone.pdf is on disk
ExistsSync(p) == BaseName(p) # "gone.pdf"

\* sanitizeHeaderValue that strips nothing
KeepHeaderValue(value) == value

\* sanitizeHeaderValue, lines 212-214: value.replace(/[\r\n]/g, "")
SanitizeHeaderValue(value) == SelectSeq(value, LAMBDA ch : ch \notin {"CR", "LF"})

\* Buffer.from(text).toString("base64"): characters of the base64 alphabet,
\* written here as the base64 text of each character
Base64(text) ==
  [k \in 1..Len(text) |->
     CASE text[k] = "a" -> "YQ"
       [] text[k] = ":" -> "Og"
       [] text[k] = "CR" -> "DQ"
       [] text[k] = "LF" -> "Cg"
       [] OTHER -> "w6k"]

\* encodeEmailHeader, lines 194-199
EncodeEmailHeader(text) ==
  IF \E k \in 1..Len(text) : text[k] = "e-acute"
  THEN <<"=?UTF-8?B?">> \o Base64(text) \o <<"?=">>
  ELSE text

\* [^\s@]+ : one or more characters, none of them white space or @
NoSpaceNoAt(text) ==
  /\ Len(text) > 0
  /\ \A k \in 1..Len(text) : text[k] \notin {"CR", "LF", " ", "@"}

\* validateEmail, lines 204-207: /^[^\s@]+@[^\s@]+\.[^\s@]+$/
ValidateEmail(email) ==
  \E at \in 1..Len(email) : \E dot \in (at + 1)..Len(email) :
    /\ email[at] = "@" /\ email[dot] = "."
    /\ NoSpaceNoAt(SubSeq(email, 1, at - 1))
    /\ NoSpaceNoAt(SubSeq(email, at + 1, dot - 1))
    /\ NoSpaceNoAt(SubSeq(email, dot + 1, Len(email)))

\* array.join(sep) of texts
RECURSIVE JoinTexts(_, _)
JoinTexts(list, sep) ==
  IF list = <<>> THEN <<>>
  ELSE IF Len(list) = 1 THEN list[1]
  ELSE list[1] \o sep \o JoinTexts(Tail(list), sep)

\* list.map(sanitizeHeaderValue), lines 307-309
SanitizeAll(list) == [k \in 1..Len(list) |-> SanitizeHeaderValue(list[k])]

\* the first address of params.to that validateEmail rejects, or none
InvalidTo(p) == \E k \in 1..Len(p.to) : ~ValidateEmail(p.to[k])

\* an address header line, lines 307-309
AddressLine(name, list) ==
  <<name, ":", " ">> \o JoinTexts(SanitizeAll(list), <<",", " ">>)

\* createEmailMessage, lines 286-291 and 301-314: the header lines up to
\* MIME-Version, "" entries filtered out
HeadLines(p) ==
  LET encodedSubject == SanitizeHeaderValue(EncodeEmailHeader(p.subject))
      safeInReplyTo  == IF p.inReplyTo.given /\ p.inReplyTo.text # <<>>
                        THEN SanitizeHeaderValue(p.inReplyTo.text) ELSE <<>>
      emailParts ==
        << <<"From", ":", " ", "me">>,
           AddressLine("To", p.to),
           IF p.cc.given THEN AddressLine("Cc", p.cc.list) ELSE <<>>,
           IF p.bcc.given THEN AddressLine("Bcc", p.bcc.list) ELSE <<>>,
           <<"Subject", ":", " ">> \o encodedSubject,
           IF safeInReplyTo # <<>>
           THEN <<"In-Reply-To", ":", " ">> \o safeInReplyTo ELSE <<>>,
           IF safeInReplyTo # <<>>
           THEN <<"References", ":", " ">> \o safeInReplyTo ELSE <<>>,
           <<"MIME-Version", ":", " ", "1.0">> >>
  IN  SelectSeq(emailParts, LAMBDA line : line # <<>>)

\* createEmailMessage, lines 287-291: the mimeType the body is built for
MimeTypeOf(p) ==
  LET mimeType == IF p.mimeType = "" THEN "text/plain" ELSE p.mimeType
  IN  IF p.htmlBody.given /\ p.htmlBody.text # <<>> /\ mimeType # "text/plain"
      THEN "multipart/alternative" ELSE mimeType

\* params.htmlBody || params.body
HtmlOrBody(p) ==
  IF p.htmlBody.given /\ p.htmlBody.text # <<>> THEN p.htmlBody.text ELSE p.body

\* createEmailMessage, lines 316-344: the lines after MIME-Version
BodyLines(p) ==
  LET plainType == <<"Content-Type", ":", " ", "text/plain; charset=UTF-8">>
      htmlType  == <<"Content-Type", ":", " ", "text/html; charset=UTF-8">>
      encoding  == <<"Content-Transfer-Encoding", ":", " ", "7bit">>
  IN  IF MimeTypeOf(p) = "multipart/alternative"
      THEN << <<"Content-Type", ":", " ", "multipart/alternative; boundary=">>,
              <<>>,
              <<"--boundary">>, plainType, encoding, <<>>, p.body, <<>>,
              <<"--boundary">>, htmlType, encoding, <<>>, HtmlOrBody(p), <<>>,
              <<"--boundary--">> >>
      ELSE IF MimeTypeOf(p) = "text/html"
      THEN <<htmlType, encoding, <<>>, HtmlOrBody(p)>>
      ELSE <<plainType, encoding, <<>>, p.body>>

\* createEmailMessage, line 346: emailParts.join("\r\n")
CreateEmailMessage(p) == JoinTexts(HeadLines(p) \o BodyLines(p), <<"CR", "LF">>)

\* the path of a log entry that is about no file
NoPath == [abs |-> FALSE, segs |-> <<>>]

\* a loop that opens each attachment as soon as it has checked it
RECURSIVE CheckAndOpenAttachments(_)
CheckAndOpenAttachments(paths) ==
  IF paths = <<>> THEN [log |-> <<>>, error |-> "none"]
  ELSE LET filePath   == Head(paths)
           classified == <<[op |-> "classify", path |-> filePath]>>
           tested     == classified \o <<[op |-> "exists", path |-> filePath]>>
           opened     == tested \o <<[op |-> "open", path |-> filePath]>>
           rest       == CheckAndOpenAttachments(Tail(paths))
       IN  IF Classify(filePath) = "blocked"
           THEN [log |-> classified, error |-> "blocked"]
           ELSE IF ~ExistsSync(filePath)
           THEN [log |-> tested, error |-> "missing file"]
           ELSE [log |-> opened \o rest.log, error |-> rest.error]

\* createEmailWithNodemailer, lines 368-381: for each path in turn,
\* validateAttachmentPath, then existsSync; the first throw ends the loop and
\* the build
RECURSIVE CheckAttachments(_)
CheckAttachments(paths) ==
  IF paths = <<>> THEN [log |-> <<>>, error |-> "none"]
  ELSE LET filePath   == Head(paths)
           classified == <<[op |-> "classify", path |-> filePath]>>
           tested     == classified \o <<[op |-> "exists", path |-> filePath]>>
           rest       == CheckAttachments(Tail(paths))
       IN  IF Classify(filePath) = "blocked"
           THEN [log |-> classified, error |-> "blocked"]
           ELSE IF ~ExistsSync(filePath)
           THEN [log |-> tested, error |-> "missing file"]
           ELSE [log |-> tested \o rest.log, error |-> rest.error]

\* array?.join(", ") of an optional address list
JoinOptional(l) ==
  IF l.given THEN [given |-> TRUE, text |-> JoinTexts(l.list, <<",", " ">>)]
  ELSE NoText

\* createEmailWithNodemailer, lines 383-394: mailOptions
MailOptions(p) ==
  [to          |-> JoinTexts(p.to, <<",", " ">>),
   cc          |-> JoinOptional(p.cc),
   bcc         |-> JoinOptional(p.bcc),
   subject     |-> p.subject,
   inReplyTo   |-> p.inReplyTo,
   references  |-> p.inReplyTo,
   attachments |-> p.attachments]

\* the message transporter.sendMail builds from mailOptions (nodemailer)
NodemailerMessage == <<"nodemailer message">>

\* the call throws
Throw(error) ==
  /\ spc' = "failed"
  /\ sendError' = error

\* sendEmail without attachments, gmail-client lines 39-57:
\* createEmailMessage (which throws on an invalid recipient), then
\* gmail.users.messages.send is issued
SendEmailPlain ==
  /\ spc = "start"
  /\ Len(params.attachments) = 0
  /\ IF InvalidTo(params)
     THEN /\ Throw("invalid recipient")
          /\ UNCHANGED <<rawMessage, sendLog>>
     ELSE /\ rawMessage' = CreateEmailMessage(params)
          /\ sendLog' = <<[op |-> "send", path |-> NoPath]>>
          /\ spc' = "sending"
          /\ UNCHANGED sendError
  /\ UNCHANGED <<params, mailOptions>>
  /\ UNCHANGED nonSendVars

\* sendEmail with attachments, gmail-client lines 39-40, and
\* createEmailWithNodemailer, lines 356-396, up to its await of sendMail
SendEmailWithAttachments ==
  /\ spc = "start"
  /\ Len(params.attachments) > 0
  /\ IF InvalidTo(params)
     THEN /\ Throw("invalid recipient")
          /\ UNCHANGED <<mailOptions, sendLog>>
     ELSE LET checked == CheckAttachments(params.attachments)
          IN  /\ sendLog' = checked.log
              /\ IF checked.error # "none"
                 THEN /\ Throw(checked.error)
                      /\ UNCHANGED mailOptions
                 ELSE /\ mailOptions' = MailOptions(params)
                      /\ spc' = "nodemailer"
                      /\ UNCHANGED sendError
  /\ UNCHANGED <<params, rawMessage>>
  /\ UNCHANGED nonSendVars

\* transporter.sendMail(mailOptions), lines 396-397: nodemailer opens and
\* reads the attachment files and returns the message, or throws; then
\* gmail.users.messages.send is issued (gmail-client lines 45-51)
NodemailerSendMail ==
  /\ spc = "nodemailer"
  /\ LET opened == [k \in 1..Len(mailOptions.attachments) |->
                      [op |-> "open", path |-> mailOptions.attachments[k]]]
     IN  \E readable \in BOOLEAN :
           IF readable
           THEN /\ rawMessage' = NodemailerMessage
                /\ sendLog' = sendLog \o opened \o <<[op |-> "send", path |-> NoPath]>>
                /\ spc' = "sending"
                /\ UNCHANGED sendError
           ELSE /\ sendLog' = sendLog \o opened
                /\ Throw("read failed")
                /\ UNCHANGED rawMessage
  /\ UNCHANGED <<params, mailOptions>>
  /\ UNCHANGED nonSendVars

\* gmail.users.messages.send settles, gmail-client lines 51-59
RemoteSendSettles ==
  /\ spc = "sending"
  /\ \E ok \in BOOLEAN :
       IF ok THEN spc' = "sent" /\ UNCHANGED sendError
       ELSE Throw("remote failed")
  /\ UNCHANGED <<params, mailOptions, rawMessage, sendLog>>
  /\ UNCHANGED nonSendVars

\* the fields of a request that end up in a header
Fields == {"to", "cc", "bcc", "subject", "inReplyTo"}

\* the values of params.mimeType ("" for undefined)
MimeTypes == {"", "text/html", "multipart/alternative"}

\* a request whose field f carries the text t, with or without a plain body
\* text and an HTML body
Request(f, t, plain, html, mime, atts) ==
  [to          |-> <<IF f = "to" THEN Address \o t ELSE Address>>,
   cc          |-> IF f = "cc" THEN [given |-> TRUE, list |-> <<Address \o t>>]
                   ELSE NoList,
   bcc         |-> IF f = "bcc" THEN [given |-> TRUE, list |-> <<Address \o t>>]
                   ELSE NoList,
   subject     |-> IF f = "subject" THEN t ELSE <<"a">>,
   body        |-> IF plain THEN <<"body">> ELSE <<>>,
   htmlBody    |-> IF html THEN [given |-> TRUE, text |-> <<"html">>] ELSE NoText,
   mimeType    |-> mime,
   inReplyTo   |-> IF f = "inReplyTo" THEN [given |-> TRUE, text |-> t] ELSE NoText,
   attachments |-> atts]

\* a sendEmail call about to start, in /app on posix: one header field
\* carries a text of up to MaxLen characters, and there are up to MaxAttach
\* attachment paths
SendInit ==
  /\ RegInit
  /\ BatchIdle
  /\ LabelIdle
  /\ platform = "posix"
  /\ cwd = <<"app">>
  /\ pathIn = NoPath
  /\ fileName = NoPath
  /\ dirOnDisk = FALSE
  /\ ppc = "done"
  /\ verdict = "none"
  /\ fsLog = <<>>
  /\ \E f \in Fields, t \in SeqsUpTo(Chars, MaxLen), plain \in BOOLEAN,
        html \in BOOLEAN, mime \in MimeTypes,
        atts \in SeqsUpTo(AttachPaths, MaxAttach) :
       params = Request(f, t, plain, html, mime, atts)
  /\ spc = "start"
  /\ mailOptions = NoValue
  /\ rawMessage = <<>>
  /\ sendLog = <<>>
  /\ sendError = "none"

SendNext ==
  \/ SendEmailPlain
  \/ SendEmailWithAttachments
  \/ NodemailerSendMail
  \/ RemoteSendSettles

SpecSend == SendInit /\ [][SendNext]_vars

(***************************************************************************)
(* label-manager: getOrCreateLabel on the labels of one remote account.    *)
(* A call awaits labels.list (in findLabelByName) and, when it found no    *)
(* label, labels.create; the remote account serves each request at one     *)
(* moment, and the requests of calls in progress interleave.  The remote   *)
(* refuses a label whose name it already holds (createLabel, lines 47-51,  *)
(* is written for that answer); whether it also refuses a name that        *)
(* differs in case only is left open.                                      *)
(***************************************************************************)
\* most getOrCreateLabel calls started in a run
MaxLabelCalls == 3

\* the label names given
LabelNames == {"Work", "work", "Home"}

\* String.prototype.toLowerCase on the label names
ToLowerCase(name) == IF name = "Work" THEN "work" ELSE IF name = "Home" THEN "home" ELSE name

\* findLabelByName, lines 149-154: the first label of the list whose name is
\* labelName but for case, or NoValue (null)
FindLabelByName(list, name) ==
  LET hits == {k \in 1..Len(list) : ToLowerCase(list[k].name) = ToLowerCase(name)}
  IN  IF hits = {} THEN NoValue
      ELSE list[CHOOSE k \in hits : \A m \in hits : k <= m]

\* getOrCreateLabel, lines 166-168, up to its await of labels.create: the
\* remote serves labels.list, the label found is returned, or labels.create
\* is requested
GetOrCreateLabelFind(c, name) ==
  /\ lpc[c] = "idle"
  /\ labelCalls < MaxLabelCalls
  /\ labelCalls' = labelCalls + 1
  /\ labelName' = [labelName EXCEPT ![c] = name]
  /\ LET existingLabel == FindLabelByName(labels, name)
     IN  IF existingLabel # NoValue
         THEN /\ labelResult' = [labelResult EXCEPT ![c] =
                                  [ok |-> TRUE, label |-> existingLabel]]
              /\ UNCHANGED lpc
         ELSE /\ labelResult' = [labelResult EXCEPT ![c] = NoValue]
              /\ lpc' = [lpc EXCEPT ![c] = "create"]
  /\ UNCHANGED labels
  /\ UNCHANGED nonLabelVars

\* createLabel, lines 37-53, and getOrCreateLabel, lines 168-173: the remote
\* serves labels.create; it adds the label and the call returns it, or it
\* refuses the name and the call throws
CreateLabelSettles(c) ==
  /\ lpc[c] = "create"
  /\ LET held   == \E k \in 1..Len(labels) : labels[k].name = labelName[c]
         byCase == FindLabelByName(labels, labelName[c]) # NoValue
     IN  \E accepted \in BOOLEAN :
           /\ accepted => ~held
           /\ ~accepted => byCase
           /\ IF accepted
              THEN LET label == [id |-> Len(labels) + 1, name |-> labelName[c]]
                   IN  /\ labels' = Append(labels, label)
                       /\ labelResult' = [labelResult EXCEPT ![c] =
                                           [ok |-> TRUE, label |-> label]]
              ELSE /\ labelResult' = [labelResult EXCEPT ![c] =
                                        [ok |-> FALSE,
                                         error |-> "Failed to get or create label"]]
                   /\ UNCHANGED labels
  /\ lpc' = [lpc EXCEPT ![c] = "idle"]
  /\ UNCHANGED <<labelName, labelCalls>>
  /\ UNCHANGED nonLabelVars

\* no label call has started
LabelInit ==
  /\ RegInit
  /\ BatchIdle
  /\ PathIdle
  /\ SendIdle
  /\ LabelIdle

\* get_or_create_label calls of two callers, interleaved at their awaits
LabelNext ==
  \/ \E c \in Callers, name \in LabelNames : GetOrCreateLabelFind(c, name)
  \/ \E c \in Callers : CreateLabelSettles(c)

SpecLabel == LabelInit /\ [][LabelNext]_vars

(***************************************************************************)
(* Properties of the batch executor.                                       *)
(***************************************************************************)
\* the 0-based input positions of the run
Positions == 0..(Len(messageIds) - 1)

\* the input positions whose remote call ended with `status`
PositionsWith(status) ==
  {p \in Positions : \E k \in 1..Len(remote) :
                        remote[k].pos = p /\ remote[k].status = status}

\* how many entries of the failure list fl name id
FailuresNaming(fl, id) == Cardinality({k \in 1..Len(fl) : fl[k].id = id})

\* C1: when a run of batchModifyEmails / batchDeleteEmails with batchSize >= 1
\* returns, successCount + failureCount = len(messageIds), and every occurrence
\* of a target is accounted for exactly once: it is counted in successCount
\* (its call fulfilled) or listed in failures (its call rejected), never both
\* and never neither.
C1_EveryTargetAccountedOnce ==
  bpc = "done" =>
    LET ok  == PositionsWith("fulfilled")
        bad == PositionsWith("rejected")
    IN  /\ returned.successCount + returned.failureCount = Len(messageIds)
        /\ returned.successCount = Cardinality(ok)
        /\ returned.failureCount = Cardinality(bad)
        /\ Len(returned.failures) = returned.failureCount
        /\ ok \cap bad = {}
        /\ ok \cup bad = Positions
        /\ \A id \in Ids :
             FailuresNaming(returned.failures, id)
               = Cardinality({p \in bad : messageIds[p + 1] = id})

\* a run over a list that names one id twice, in two chunks, returned with
\* both successes and failures
C1_Witness ==
  /\ bpc = "done"
  /\ Len(chunkLog) >= 2
  /\ returned.successCount >= 1
  /\ returned.failureCount >= 1
  /\ \E p, q \in 1..Len(messageIds) : p # q /\ messageIds[p] = messageIds[q]

CeilDiv(n, c) == (n + c - 1) \div c

\* C2: for chunk size c >= 1 and n targets (n = 0 and c > n included) the loop
\* dispatches exactly ceil(n/c) chunks, and chunk k (0-indexed) is the targets
\* at input positions [k*c, min((k+1)*c, n)) in their original order.
C2_ChunkPartition ==
  LET n == Len(messageIds)
      c == batchSize
  IN  /\ Len(chunkLog) <= CeilDiv(n, c)
      /\ bpc = "done" => Len(chunkLog) = CeilDiv(n, c)
      /\ \A k \in 0..(Len(chunkLog) - 1) :
           /\ chunkLog[k + 1].start = k * c
           /\ chunkLog[k + 1].ids = SubSeq(messageIds, k * c + 1, Min((k + 1) * c, n))

\* a finished run whose last chunk is shorter than the chunk size
C2_Witness ==
  /\ bpc = "done"
  /\ Len(messageIds) = 3 /\ batchSize = 2
  /\ Len(chunkLog) = 2
  /\ Len(chunkLog[2].ids) = 1

\* the remote calls that have not settled
InFlight == {k \in 1..Len(remote) : remote[k].status = "pending"}

\* C3: no remote call of a later chunk exists while a call of an earlier chunk
\* has not settled, and at no time are more than batchSize calls in flight.
C3_ChunksInSequence ==
  /\ \A k1, k2 \in 1..Len(remote) :
       remote[k1].chunk < remote[k2].chunk => remote[k1].status # "pending"
  /\ Cardinality(InFlight) <= batchSize

\* the second chunk is in flight, batchSize calls at once
C3_Witness ==
  /\ batchSize = 2
  /\ Cardinality(InFlight) = 2
  /\ \A k \in InFlight : remote[k].chunk = 2

\* C4: a failing call never aborts the run nor drops another target's outcome:
\* whenever the loop is between chunks every call issued so far is recorded,
\* and the run returns a BatchOperationResult that covers every target, each
\* with a settled call, even when all of them fail.
C4_FailureNeverAborts ==
  /\ bpc = "loop" => successCount + Len(failures) = Len(remote)
  /\ bpc = "loop" /\ i < Len(messageIds) =>
       ENABLED (ModifyDispatch \/ DeleteDispatch)
  /\ bpc = "done" =>
       /\ DOMAIN returned = {"successCount", "failureCount", "failures"}
       /\ Len(remote) = Len(messageIds)
       /\ \A p \in Positions : \E k \in 1..Len(remote) :
            remote[k].pos = p /\ remote[k].status \in {"fulfilled", "rejected"}
       /\ returned.successCount = Cardinality(PositionsWith("fulfilled"))
       /\ returned.failureCount = Cardinality(PositionsWith("rejected"))

\* a run of two chunks in which every call was rejected has returned
C4_Witness ==
  /\ bpc = "done"
  /\ Len(messageIds) >= 3
  /\ Len(chunkLog) >= 2
  /\ \A k \in 1..Len(remote) : remote[k].status = "rejected"
  /\ returned.failureCount = Len(messageIds)

RECURSIVE ExpectedFailures(_)
\* the failures of input positions 0..(n-1), by input position
ExpectedFailures(n) ==
  IF n = 0 THEN <<>>
  ELSE LET p == n - 1
           k == CHOOSE x \in 1..Len(remote) : remote[x].pos = p
           e == [id |-> messageIds[p + 1],
                 error |-> IF remote[k].reason.isError
                           THEN remote[k].reason.message ELSE "429"]
       IN  IF remote[k].status = "rejected"
           THEN Append(ExpectedFailures(n - 1), e)
           ELSE ExpectedFailures(n - 1)

\* C5: whatever the order in which the calls of a chunk settle, the failures
\* of the result are the failed targets in input order, each with the target's
\* id and the failure's message.
C5_FailuresInInputOrder ==
  bpc = "done" /\ Len(remote) = Len(messageIds) =>
    returned.failures = ExpectedFailures(Len(messageIds))

\* two calls of one chunk failed, the later target's before the earlier one's,
\* with different messages
C5_Witness ==
  /\ bpc = "done"
  /\ \E a, b \in 1..Len(settleOrder) :
       /\ a < b
       /\ settleOrder[a] > settleOrder[b]
       /\ remote[settleOrder[a]].chunk = remote[settleOrder[b]].chunk
       /\ remote[settleOrder[a]].status = "rejected"
       /\ remote[settleOrder[b]].status = "rejected"
       /\ remote[settleOrder[a]].reason # remote[settleOrder[b]].reason

(***************************************************************************)
(* Properties of the account registry.                                     *)
(***************************************************************************)
\* every caller is between calls
AllIdle == \A c \in Callers : pc[c] = "idle"

\* C6: in every state of the registry document reached by addAccount,
\* removeAccount, setDefaultAccount and getAccountAuth calls, defaultAccount
\* is unset or is the accountId of an identity the document holds.
C6_DefaultIsRegistered ==
  LET reg == LoadRegistry
  IN  reg.defaultAccount = Undefined \/ HasAccount(reg, reg.defaultAccount)

\* the first account was removed after a second one was added: the default
\* moved to the second one
C6_Witness ==
  /\ AllIdle
  /\ "a@x.com" \in addedOk /\ "a@x.com" \in removeCalled
  /\ ~HasAccount(LoadRegistry, "a@x.com")
  /\ HasAccount(LoadRegistry, "b@x.com")
  /\ LoadRegistry.defaultAccount = "b@x.com"

\* C7: under interleaved calls no update is lost.  A consequence of the
\* calls taking effect in some serial order: once every call has returned, an
\* account whose addAccount returned and for which removeAccount was never
\* called is in the registry.
C7_NoLostUpdate ==
  AllIdle => \A e \in addedOk \ removeCalled : HasAccount(LoadRegistry, e)

\* the awaits of addAccount after its loadRegistry
AddSteps == {"add_mkdir", "add_auth", "add_token", "add_save"}

\* C8: addAccount(x) for an x the registry holds fails and is a no-op: no
\* step of the call invokes the consent flow, replaces a stored credential or
\* changes the registry document (x's addedAt and lastUsed, the default), and
\* the call does not end as a success.
C8_DuplicateAddIsNoOp ==
  [][\A c \in Callers :
       (/\ pc[c] \in AddSteps
        /\ pc'[c] # pc[c]
        /\ HasAccount(registry[c], arg[c])
        /\ HasAccount(LoadRegistry, arg[c]))
       => /\ consents' = consents
          /\ tokens' = tokens
          /\ configFile' = configFile
          /\ pc'[c] = "idle" => outcome'[c] # "ok"]_vars

\* C9: a returning addAccount(x) makes x the default exactly when the
\* registry held no identity before; otherwise the default stays as it was.
C9_DefaultOnlyForFirst ==
  [][\A c \in Callers :
       (pc[c] = "add_save" /\ pc'[c] = "idle")
       => LET before == LoadRegistry
              after  == Parse(configFile')
          IN  /\ Len(before.accounts) = 0 => after.defaultAccount = arg[c]
              /\ Len(before.accounts) > 0 =>
                   after.defaultAccount = before.defaultAccount]_vars

\* after addAccount(a) then addAccount(b) the default is a
C9_Witness ==
  /\ AllIdle
  /\ started = 2
  /\ Keys(LoadRegistry) = <<"a@x.com", "b@x.com">>
  /\ LoadRegistry.defaultAccount = "a@x.com"

\* C10: a returning removeAccount(x) on a registered x leaves x's directory
\* and credential deleted and x out of the registry, the other entries as they
\* were; if x was the default, the default is then unset when no identity
\* remains and else the first remaining identity in the registry's storage
\* order; otherwise the default is unchanged; it never names x.
C10_RemoveReassignsDefault ==
  [][\A c \in Callers :
       (pc[c] = "rm_save" /\ pc'[c] = "idle")
       => LET before == LoadRegistry
              after  == Parse(configFile')
              x      == arg[c]
          IN  /\ HasAccount(before, x)
              /\ ~HasAccount(after, x)
              /\ x \notin dirs' /\ tokens'[x] = NoToken
              /\ after.accounts = SelectSeq(before.accounts, LAMBDA a : a.email # x)
              /\ after.defaultAccount # x
              /\ before.defaultAccount = x =>
                   after.defaultAccount =
                     IF Len(after.accounts) = 0 THEN Undefined
                     ELSE after.accounts[1].email
              /\ before.defaultAccount # x =>
                   after.defaultAccount = before.defaultAccount]_vars

\* b, c and a were added in this order and b, the default, was then removed:
\* the default is c, the first remaining key (not the smallest id)
C10_Witness ==
  /\ AllIdle
  /\ started = 4 /\ clock = 4
  /\ outcome[1] = "ok"
  /\ "b@x.com" \in removeCalled
  /\ "b@x.com" \notin dirs /\ tokens["b@x.com"] = NoToken
  /\ Keys(LoadRegistry) = <<"c@x.com", "a@x.com">>
  /\ AccountOf(LoadRegistry, "c@x.com").addedAt = 2
  /\ AccountOf(LoadRegistry, "a@x.com").addedAt = 3
  /\ LoadRegistry.defaultAccount = "c@x.com"

\* C11: getGmailClient(account) returns a client bound to that account and
\* built from the credential in that account's own token.json, and ends with
\* getAccountAuth's own error when getAccountAuth fails; without an account
\* it does the same for the registry's default account; without an account
\* and without a default it ends with its own error, and that call reads no
\* credential and writes no registry document.
C11_ClientBoundToResolvedAccount ==
  [][\A c \in Callers :
       /\ (pc[c] = "ga_save" /\ pc'[c] = "idle" /\ hint[c] # Direct)
          => LET who == IF hint[c] = ByDefault
                        THEN LoadRegistry.defaultAccount ELSE arg[c]
             IN  /\ outcome'[c] = "ok"
                 /\ gmail'[c] = [accountEmail |-> who, auth |-> tokens[who]]
       /\ (pc[c] \in {"ggc_auth", "ga_read"} /\ pc'[c] = "idle" /\ hint[c] # Direct)
          => /\ gmail'[c] = NoValue
             /\ outcome'[c] =
                  IF ~HasAccount(LoadRegistry, arg[c]) THEN "not found"
                  ELSE "re-authenticate"
       /\ (/\ pc[c] = "idle" /\ started' = started + 1
           /\ arg'[c] = Undefined
           /\ LoadRegistry.defaultAccount = Undefined)
          => /\ pc'[c] = "idle"
             /\ outcome'[c] = "no default"
             /\ outcome'[c] \notin {"not found", "re-authenticate"}
             /\ gmail'[c] = NoValue
             /\ UNCHANGED <<configFile, tokens, auth, registry, clock>>]_vars

\* getGmailClient() has resolved the default b, which is not the first
\* account of the registry, and has parsed b's own credential
C11_Witness ==
  /\ pc[1] = "ga_save" /\ hint[1] = ByDefault
  /\ arg[1] = "b@x.com"
  /\ Keys(LoadRegistry)[1] = "a@x.com"
  /\ LoadRegistry.defaultAccount = "b@x.com"
  /\ auth[1] = tokens["b@x.com"] /\ auth[1] # tokens["a@x.com"]

\* C12: getAccountAuth(x) ends with the not-found error when the registry
\* does not hold x, and with the other, re-authenticate error when it holds x
\* and x's token.json is missing or does not parse; x's lastUsed is set to the
\* time of the call when and only when the call succeeds, and no step of a
\* failing call changes the registry document.
C12_AuthErrorsAndLastUsed ==
  [][\A c \in Callers :
       /\ \A x \in Accounts :
            GetAccountAuthLoad(c, x, MaxClientCalls)
            => /\ configFile' = configFile
               /\ IF HasAccount(LoadRegistry, x)
                  THEN pc'[c] = "ga_read"
                  ELSE pc'[c] = "idle" /\ outcome'[c] = "not found"
       /\ (pc[c] = "ga_read" /\ pc'[c] # "ga_read")
          => /\ configFile' = configFile
             /\ IF tokens[arg[c]] \in {NoToken, CorruptToken}
                THEN pc'[c] = "idle" /\ outcome'[c] = "re-authenticate"
                ELSE pc'[c] = "ga_save"
       /\ (pc[c] = "ga_save" /\ pc'[c] # "ga_save")
          => /\ pc'[c] = "idle" /\ outcome'[c] = "ok"
             /\ Parse(configFile') = TouchLastUsed(LoadRegistry, arg[c], clock)
             /\ AccountOf(Parse(configFile'), arg[c]).lastUsed = clock
             /\ AccountOf(LoadRegistry, arg[c]).lastUsed < clock]_vars

\* getAccountAuth(a) has ended with the re-authenticate error: a is
\* registered, its token.json does not parse, its lastUsed was never set
C12_Witness ==
  /\ pc[1] = "idle" /\ outcome[1] = "re-authenticate" /\ arg[1] = "a@x.com"
  /\ HasAccount(LoadRegistry, "a@x.com")
  /\ tokens["a@x.com"] = CorruptToken
  /\ AccountOf(LoadRegistry, "a@x.com").lastUsed = NoTime
  /\ started = 2

\* C13: setDefaultAccount(x) and removeAccount(x) for an x the registry does
\* not hold end with the not-found error and change nothing: the registry
\* document (entries and default), the account directories and the stored
\* credentials are as before.
C13_UnknownAccountChangesNothing ==
  [][\A c \in Callers : \A x \in Accounts :
       (/\ ~HasAccount(LoadRegistry, x)
        /\ \/ SetDefaultLoad(c, x, MaxCalls)
           \/ RemoveAccountLoad(c, x, MaxCalls))
       => /\ pc'[c] = "idle" /\ outcome'[c] = "not found"
          /\ UNCHANGED <<configFile, dirs, tokens>>]_vars

\* removeAccount(a) has ended with not-found although a directory for a
\* exists (an addAccount(a) was abandoned): the directory is still there, and
\* b is still registered and the default
C13_Witness ==
  /\ pc[1] = "idle" /\ outcome[1] = "not found" /\ arg[1] = "a@x.com"
  /\ "a@x.com" \in removeCalled
  /\ "a@x.com" \in dirs
  /\ Keys(LoadRegistry) = <<"b@x.com">>
  /\ LoadRegistry.defaultAccount = "b@x.com"

\* the awaits of removeAccount after its loadRegistry
RemoveSteps == {"rm_rmdir", "rm_save"}

\* C14: an addAccount or removeAccount call that fails part-way (the consent
\* flow, the token write or the registry write throws) leaves no partial
\* mutation: when it has thrown, the registry document and the set of account
\* directories are exactly as they were when the call started.
C14_FailureLeavesNoPartialMutation ==
  [][\A c \in Callers :
       (/\ pc[c] \in AddSteps \cup RemoveSteps
        /\ pc'[c] = "idle"
        /\ outcome'[c] # "ok")
       => /\ dirs' = dirsBefore[c]
          /\ LoadRegistry' = registry[c]]_vars

(***************************************************************************)
(* Properties of the path guard.                                           *)
(***************************************************************************)
\* the resolved absolute form of a path given: the working directory in front
\* of a relative path, "." and ".." worked out
ResolvedForm(p) == Normalize(<<>>, IF p.abs THEN p.segs ELSE cwd \o p.segs)

\* the positions of the log at which the file system is written
WritesOf(log) == {k \in 1..Len(log) : log[k].op \in {"mkdir", "write"}}

InCredentialRoot(p) == p = ACCOUNTS_DIR \/ Beneath(p, ACCOUNTS_DIR)

\* C17: the path guard blocks ACCOUNTS_DIR, the directory the AccountManager
\* keeps config.json and the token files in, and every path beneath it,
\* whatever the file name: validateAttachmentPath blocks such a path, and
\* download_attachment writes nothing there.
C17_CredentialRootBlocked ==
  /\ (ppc = "attachment" /\ InCredentialRoot(ResolvedForm(pathIn)))
     => verdict = "blocked"
  /\ ppc = "download"
     => \A k \in WritesOf(fsLog) :
          fsLog[k].op = "write" => ~InCredentialRoot(fsLog[k].path)

\* C18: the verdict on a path given is the verdict on its resolved absolute
\* form, for relative paths and paths with ".." segments too: a path that
\* resolves into a blocked location is blocked however it is spelled.
C18_VerdictOfResolvedForm ==
  ppc = "attachment" =>
    /\ verdict = Classify(AsGiven(ResolvedForm(pathIn)))
    /\ IsSensitivePath(ResolvedForm(pathIn)) => verdict = "blocked"

\* in the root directory, app/../accounts is blocked as /accounts is
C18_Witness ==
  /\ ppc = "attachment" /\ verdict = "blocked"
  /\ platform = "posix" /\ cwd = <<>>
  /\ pathIn = [abs |-> FALSE, segs |-> <<"app", "..", "accounts">>]
  /\ ~MatchesSensitivePattern(ResolvedForm(pathIn))

(***************************************************************************)
(* Properties of sendEmail and the message builders.                       *)
(***************************************************************************)
\* the positions of the log with the operation op
LogPositions(op) == {k \in 1..Len(sendLog) : sendLog[k].op = op}

\* an attachment path of the request that the guard blocks or that names no
\* file
SomeAttachmentRefused ==
  \E j \in 1..Len(params.attachments) :
    \/ Classify(params.attachments[j]) = "blocked"
    \/ ~ExistsSync(params.attachments[j])

\* C15: in a sendEmail with attachments every path is classified by the guard
\* and tested for existence before any attachment file is opened; when some
\* path is blocked or names no file the build throws, there is no message,
\* not even a partial one, and no remote send call is issued.
C15_AttachmentsCheckedBeforeOpen ==
  (spc # "start" /\ Len(params.attachments) > 0) =>
    /\ \A k \in LogPositions("open") : \A j \in 1..Len(params.attachments) :
         /\ \E a \in 1..(k - 1) :
              sendLog[a] = [op |-> "classify", path |-> params.attachments[j]]
         /\ \E b \in 1..(k - 1) :
              sendLog[b] = [op |-> "exists", path |-> params.attachments[j]]
    /\ SomeAttachmentRefused =>
         /\ spc = "failed"
         /\ sendError \in {"invalid recipient", "blocked", "missing file"}
         /\ rawMessage = <<>> /\ mailOptions = NoValue
         /\ LogPositions("open") = {} /\ LogPositions("send") = {}

\* report.pdf passed both checks, gone.pdf does not exist: the build threw
\* and report.pdf was never opened
C15_Witness ==
  /\ spc = "failed" /\ sendError = "missing file"
  /\ Len(params.attachments) = 2
  /\ BaseName(params.attachments[1]) = "report.pdf"
  /\ BaseName(params.attachments[2]) = "gone.pdf"
  /\ Len(sendLog) = 4
  /\ sendLog[2] = [op |-> "exists", path |-> params.attachments[1]]
  /\ rawMessage = <<>>

\* a text without its CR and LF characters
StripCRLF(text) == SelectSeq(text, LAMBDA ch : ch \notin {"CR", "LF"})

\* an optional address list without the CR and LF characters of its members
StripList(l) == [given |-> l.given, list |-> [k \in 1..Len(l.list) |-> StripCRLF(l.list[k])]]

\* the same request with CR/LF-free header values
Stripped(p) ==
  [p EXCEPT !.to = [k \in 1..Len(p.to) |-> StripCRLF(p.to[k])],
            !.cc = StripList(p.cc),
            !.bcc = StripList(p.bcc),
            !.subject = StripCRLF(p.subject),
            !.inReplyTo = [given |-> p.inReplyTo.given,
                           text |-> StripCRLF(p.inReplyTo.text)]]

\* the lines of a message: the texts between its CR LF pairs
RECURSIVE SplitLines(_, _, _)
SplitLines(rest, line, done) ==
  IF rest = <<>> THEN Append(done, line)
  ELSE IF Len(rest) > 1 /\ rest[1] = "CR" /\ rest[2] = "LF"
       THEN SplitLines(Tail(Tail(rest)), <<>>, Append(done, line))
       ELSE SplitLines(Tail(rest), Append(line, Head(rest)), done)

\* the header block of a message: its lines before the first empty line
HeaderBlock(message) ==
  LET lines == SplitLines(message, <<>>, <<>>)
      empty == {k \in 1..Len(lines) : lines[k] = <<>>}
  IN  IF empty = {} THEN lines
      ELSE SubSeq(lines, 1, (CHOOSE k \in empty : \A m \in empty : k <= m) - 1)

\* the name of a header line: its text before the first colon
HeaderName(line) ==
  LET colons == {k \in 1..Len(line) : line[k] = ":"}
  IN  IF colons = {} THEN line
      ELSE SubSeq(line, 1, (CHOOSE k \in colons : \A m \in colons : k <= m) - 1)

\* the header names of a message, in order
HeaderNames(message) ==
  LET block == HeaderBlock(message)
  IN  [k \in 1..Len(block) |-> HeaderName(block[k])]

\* a text holds neither CR nor LF
NoCRLF(text) == \A k \in 1..Len(text) : text[k] \notin {"CR", "LF"}

\* C19: whatever characters subject, to, cc, bcc and inReplyTo hold, no line
\* of the header block of the message createEmailMessage builds holds a CR or
\* LF, and the header block has the header names, in the same number and
\* order, of the message built for the same request with CR/LF-free values.
C19_NoHeaderInjection ==
  (spc # "start" /\ Len(params.attachments) = 0 /\ rawMessage # <<>>) =>
    /\ \A k \in 1..Len(HeaderBlock(rawMessage)) : NoCRLF(HeaderBlock(rawMessage)[k])
    /\ HeaderNames(rawMessage) = HeaderNames(CreateEmailMessage(Stripped(params)))

\* a message was built for the subject LF a : its header block is From, To,
\* Subject, MIME-Version, Content-Type, Content-Transfer-Encoding
C19_Witness ==
  /\ spc = "sending" /\ Len(params.attachments) = 0
  /\ params.subject = <<"LF", "a">>
  /\ Len(HeaderBlock(rawMessage)) = 6
  /\ HeaderBlock(rawMessage)[3] = <<"Subject", ":", " ", "a">>

\* C20: on both build paths of sendEmail the header-bound texts of the
\* request (to, cc, bcc, subject, inReplyTo) have their CR and LF stripped by
\* the builder before they go into a header: the header lines
\* createEmailMessage writes, and the header fields createEmailWithNodemailer
\* hands to nodemailer, hold no CR and no LF.
C20_StrippedOnEveryBuildPath ==
  /\ (spc # "start" /\ Len(params.attachments) = 0 /\ rawMessage # <<>>)
     => \A k \in 1..Len(HeadLines(params)) : NoCRLF(HeadLines(params)[k])
  /\ mailOptions # NoValue
     => /\ NoCRLF(mailOptions.to)
        /\ NoCRLF(mailOptions.cc.text)
        /\ NoCRLF(mailOptions.bcc.text)
        /\ NoCRLF(mailOptions.subject)
        /\ NoCRLF(mailOptions.inReplyTo.text)
        /\ NoCRLF(mailOptions.references.text)

\* some member of an optional address list fails validateEmail
InvalidIn(l) == l.given /\ \E k \in 1..Len(l.list) : ~ValidateEmail(l.list[k])

\* some recipient address of the request, in to, cc or bcc, fails validateEmail
AnyInvalidRecipient(p) == InvalidTo(p) \/ InvalidIn(p.cc) \/ InvalidIn(p.bcc)

\* C21: whenever a recipient address of the request, in to, cc or bcc, fails
\* the syntactic address rule, the build throws the invalid-recipient error,
\* there is no message and no mailOptions, and no send call is issued.
C21_InvalidRecipientFailsBuild ==
  (spc # "start" /\ AnyInvalidRecipient(params)) =>
    /\ spc = "failed" /\ sendError = "invalid recipient"
    /\ rawMessage = <<>> /\ mailOptions = NoValue
    /\ LogPositions("send") = {}

\* the Content-Type lines of a message, in order
ContentTypes(message) ==
  SelectSeq(SplitLines(message, <<>>, <<>>),
            LAMBDA line : HeaderName(line) = <<"Content-Type">>)

\* the content of each part of a message, in order: the line that follows
\* the empty line after a Content-Transfer-Encoding line
PartContents(message) ==
  LET lines == SplitLines(message, <<>>, <<>>)
      at    == {k \in 1..(Len(lines) - 2) :
                  /\ HeaderName(lines[k]) = <<"Content-Transfer-Encoding">>
                  /\ lines[k + 1] = <<>>}
      nth(n) == CHOOSE k \in at : Cardinality({m \in at : m < k}) = n - 1
  IN  [n \in 1..Cardinality(at) |-> lines[nth(n) + 2]]

\* C22: the content type of a message built without attachments follows from
\* the bodies given. Only a plain body: one text/plain part with the body.
\* A plain and an HTML body: multipart/alternative, the plain part first with
\* the plain body verbatim, the HTML part second. Only an HTML body: one
\* text/html part with the HTML body.
C22_ContentTypeFollowsBodies ==
  (spc # "start" /\ Len(params.attachments) = 0 /\ rawMessage # <<>>) =>
    LET plainType == <<"Content-Type", ":", " ", "text/plain; charset=UTF-8">>
        htmlType  == <<"Content-Type", ":", " ", "text/html; charset=UTF-8">>
        multiType == <<"Content-Type", ":", " ", "multipart/alternative; boundary=">>
        plain     == params.body # <<>>
        html      == params.htmlBody.given
    IN  /\ (plain /\ ~html) =>
             /\ ContentTypes(rawMessage) = <<plainType>>
             /\ PartContents(rawMessage) = <<params.body>>
        /\ (plain /\ html) =>
             /\ ContentTypes(rawMessage) = <<multiType, plainType, htmlType>>
             /\ PartContents(rawMessage) = <<params.body, params.htmlBody.text>>
        /\ (~plain /\ html) =>
             /\ ContentTypes(rawMessage) = <<htmlType>>
             /\ PartContents(rawMessage) = <<params.htmlBody.text>>

(***************************************************************************)
(* Further properties of the batch run.                                    *)
(***************************************************************************)
\* C23: every batch run has a chunk size of at least 1: a batchSize below 1
\* given to the batch tools or methods never drives the chunk loop, no chunk
\* is dispatched with it.
C23_ChunkSizeAtLeastOne ==
  chunkLog # <<>> => batchSize >= 1

\* the chunk sequence of a run over ids with chunk size c: the loop variable
\* and the targets of each chunk
ChunksOf(ids, c) ==
  [k \in 1..CeilDiv(Len(ids), c) |->
     [start |-> (k - 1) * c,
      ids   |-> SubSeq(ids, (k - 1) * c + 1, Min(k * c, Len(ids)))]]

\* the calls a run issues, without the kind of operation and its outcome
CallsOf(calls) ==
  [k \in 1..Len(calls) |->
     [id |-> calls[k].id, pos |-> calls[k].pos, chunk |-> calls[k].chunk]]

\* the calls of the first n targets of ids with chunk size c
CallsFor(ids, c, n) ==
  [k \in 1..n |-> [id |-> ids[k], pos |-> k - 1, chunk |-> ((k - 1) \div c) + 1]]

\* the failure entries of the calls that rejected, in call order
FailuresOf(calls) ==
  LET bad == SelectSeq(calls, LAMBDA call : call.status = "rejected")
  IN  [k \in 1..Len(bad) |-> [id |-> bad[k].id, error |-> ErrorText(bad[k].reason)]]

\* the result for calls that have all settled
ResultOf(calls) ==
  [successCount |-> Len(SelectSeq(calls, LAMBDA call : call.status = "fulfilled")),
   failureCount |-> Len(FailuresOf(calls)),
   failures     |-> FailuresOf(calls)]

\* C24: batchModifyEmails and batchDeleteEmails differ only in the remote
\* operation they call. In a run of either, the chunks dispatched and the
\* calls issued are one function of messageIds and batchSize, and the result
\* returned is one function of the calls' outcomes: for the same messageIds,
\* batchSize and outcomes both methods issue their calls in the same chunk
\* sequence and return the same BatchOperationResult.
C24_ModifyAndDeleteAgree ==
  /\ \A k \in 1..Len(remote) : remote[k].op = bOp
  /\ chunkLog = SubSeq(ChunksOf(messageIds, batchSize), 1, Len(chunkLog))
  /\ CallsOf(remote) = CallsFor(messageIds, batchSize, Len(remote))
  /\ bpc = "done" => returned = ResultOf(remote)

\* a batchDeleteEmails run of two chunks returned, with a success and with
\* failures of both kinds of reason
C24_Witness ==
  /\ bOp = "delete" /\ bpc = "done"
  /\ Len(chunkLog) = 2
  /\ returned.successCount >= 1
  /\ \E a, b \in 1..Len(returned.failures) :
       returned.failures[a].error = "Not Found" /\ returned.failures[b].error = "429"

\* the remote calls issued for the target at input position p
CallsAt(p) == {k \in 1..Len(remote) : remote[k].pos = p}

\* C26: in one batch run each occurrence of a target in messageIds causes
\* exactly one remote call, for that target: no position has two calls,
\* whether or not a call failed, the positions of the chunks dispatched so
\* far have one call each, and when the run returns every position has one.
C26_OneCallPerTarget ==
  /\ \A k \in 1..Len(remote) :
       /\ remote[k].pos \in Positions
       /\ remote[k].id = messageIds[remote[k].pos + 1]
  /\ \A p \in Positions :
       /\ Cardinality(CallsAt(p)) <= 1
       /\ (p < i \/ bpc = "done") => Cardinality(CallsAt(p)) = 1

\* a run over m1, m1, m2 in chunks of two returned: the first call for m1
\* was rejected, the second chunk was dispatched, and m1 was called twice,
\* once per occurrence
C26_Witness ==
  /\ bpc = "done"
  /\ messageIds = <<"m1", "m1", "m2">> /\ batchSize = 2
  /\ Len(remote) = 3
  /\ remote[1].status = "rejected"
  /\ remote[2].status = "fulfilled"
  /\ Cardinality({k \in 1..Len(remote) : remote[k].id = "m1"}) = 2

\* a step that dispatches a chunk dispatches one that starts past the chunk
\* before, and a step that tallies a chunk moves the loop variable on
LoopAdvances ==
  /\ (Len(chunkLog') > Len(chunkLog) /\ chunkLog # <<>>) =>
       chunkLog'[Len(chunkLog')].start > chunkLog[Len(chunkLog)].start
  /\ (bpc = "await" /\ bpc' = "loop") => i' > i

\* C27: for every messageIds and every batchSize >= 1, when every remote
\* call settles in the end, the method returns in the end, having dispatched
\* each of the ceil(n/c) chunks once; every dispatch is of a chunk that
\* starts past the one before, and every tally moves the loop variable on.
C27_RunReturns ==
  /\ <>(/\ bpc = "done"
        /\ Len(chunkLog) = CeilDiv(Len(messageIds), batchSize)
        /\ \A a, b \in 1..Len(chunkLog) : a < b => chunkLog[a].start < chunkLog[b].start)
  /\ [][LoopAdvances]_vars

\* the run over three targets in chunks of two returned, all calls fulfilled,
\* after the chunks at 0 and at 2
C27_Witness ==
  /\ bpc = "done"
  /\ Len(messageIds) = 3 /\ batchSize = 2
  /\ returned = [successCount |-> 3, failureCount |-> 0, failures |-> <<>>]
  /\ Len(chunkLog) = 2
  /\ chunkLog[1].start = 0 /\ chunkLog[2].start = 2

(***************************************************************************)
(* Further properties of the account registry.                             *)
(***************************************************************************)
\* C28: after any sequence of addAccount, removeAccount, setDefaultAccount
\* and getAccountAuth calls made one after another from the empty registry,
\* the registry has a default whenever it holds an identity, and has none
\* only when it is empty.
C28_DefaultWheneverNonEmpty ==
  LET reg == LoadRegistry
  IN  (Len(reg.accounts) > 0) <=> (reg.defaultAccount # Undefined)

\* a and b were added, b was made the default and then removed: a, the one
\* identity left, is the default again
C28_Witness ==
  /\ AllIdle
  /\ started = 4
  /\ addedOk = {"a@x.com", "b@x.com"}
  /\ removeCalled = {"b@x.com"}
  /\ Keys(LoadRegistry) = <<"a@x.com">>
  /\ AccountOf(LoadRegistry, "a@x.com").addedAt = 1
  /\ LoadRegistry.defaultAccount = "a@x.com"

\* C29: under interleaved addAccount, removeAccount, setDefaultAccount and
\* getAccountAuth calls, every identity of the registry has its account
\* directory, here in the states in which every call has returned; so an
\* identity whose removeAccount returned, its directory deleted, is not in
\* the registry again unless an addAccount made the directory anew.
C29_RegisteredHasDirectory ==
  AllIdle => \A k \in 1..Len(LoadRegistry.accounts) :
               LoadRegistry.accounts[k].email \in dirs

\* an addAccount that loaded an unreadable config.json saves: the document
\* it writes holds the account of the call alone, as the default
WriteAfterUnreadable ==
  \A c \in Callers :
    (pc[c] = "add_save" /\ pc'[c] = "idle" /\ Unreadable(configFile)) =>
      LET after == Parse(configFile')
      IN  /\ ~Unreadable(configFile')
          /\ Keys(after) = <<arg[c]>>
          /\ after.defaultAccount = arg[c]
          /\ \A a \in Accounts \ {arg[c]} : ~HasAccount(after, a)

C25_GetOrCreateLabelIdempotent ==
  /\ \A a, b \in 1..Len(labels) :
       ToLowerCase(labels[a].name) = ToLowerCase(labels[b].name) => a = b
  /\ \A c \in Callers :
       (labelResult[c] # NoValue) =>
         /\ labelResult[c].ok
         /\ \E k \in 1..Len(labels) : labels[k] = labelResult[c].label
         /\ ToLowerCase(labelResult[c].label.name) = ToLowerCase(labelName[c])

====
